---- MODULE Spec2Model ----
(***************************************************************************)
(* A model of the XLR -> Python class generator of player-ui/tools:        *)
(*   - the XLR node model (xlr/types/python/src/nodes.py),                 *)
(*   - the type guards (xlr/types/python/src/guards.py),                   *)
(*   - the class generator (language/generators/python/src/generator.py).  *)
(*                                                                         *)
(* Python values are records with a field cls (the Python class) and the   *)
(* attributes the class's constructor sets.  Strings that the code takes   *)
(* apart (property names, class names, titles, refs) are sequences of      *)
(* one-character strings, <<>> standing for both None and "" (the code     *)
(* only tests them for truth).  A const is <<>> (None) or <<v>>; an        *)
(* optional node is the record None or a node.                             *)
(***************************************************************************)
EXTENDS Integers, Sequences, FiniteSets, TLC

VARIABLES
    \* ---- one generation call (generator.py) ----
    pc,                   \* position of the call: "idle", "main", "loop", "write", "done", "failed"
    input,                \* [root, type]: the arguments of generate_python_classes
    built,                \* TRUE once ClassGenerator.__init__ has run
    classes,              \* ClassGenerator.classes: ordered list of class names
    classes_to_generate,  \* ClassGenerator.classes_to_generate: name -> ObjectType
    generic_tokens,       \* ClassGenerator.generic_tokens: list of ParamTypeNode (keyed by symbol)
    loop_i,               \* index of the for loop of generate() over self.classes
    module_body,          \* module.body of generate(): the imports, then the class definitions
    main_class,           \* the ClassDef built by _generate_main_class, <<>> before
    dir_exists,           \* TRUE when the output directory exists
    files,                \* the files of the output directory: set of [name, content]
    error,                \* the exception the call raised, "" if none
    located,              \* the keys of COMMON_AST_NODES whose node has lineno and col_offset
    \* ---- one guard call (guards.py) ----
    guard_obj,            \* the value the guards are called with
    guard_fn,             \* the guard called last ("" none, "all" every guard)
    guard_out,            \* guard name -> [raised, ret] for the guards called
    \* ---- one deserialization (deserializer.py) ----
    des_pc,               \* "idle", "loaded", "written", "reloaded"
    des_doc,              \* the JSON document given to deserialize_xlr_node
    des_out,              \* what deserialize_xlr_node gave: a value, or the exception raised
    des_wire,             \* des_out written back as a JSON document
    des_again,            \* what deserialize_xlr_node gives for des_wire
    \* ---- one run of the batch entry point (__main__.py) ----
    batch_pc,             \* "start", "loop", "finished", "exited", "crashed"
    manifest,             \* capabilities of manifest.json: [Assets, Views], lists of names
    batch_i,              \* the listed type the run is at (Assets first, then Views)
    \* ---- two generation calls interleaved ----
    running,              \* the call (1 or 2) whose state the variables of the call hold
    other,                \* the state of the call that is not running
    \* ---- the generated module used (test_generator.py) ----
    scenario,             \* [pc, error, result]: how far the use of the module got
    \* ---- assets of the DSL (view.py) ----
    heap,                 \* the Asset objects built so far, in the order of construction
    calls                 \* the calls made on the assets so far, in their order

genVars == <<pc, input, built, classes, classes_to_generate, generic_tokens,
             loop_i, module_body, main_class, dir_exists, files, error, located>>
guardVars == <<guard_obj, guard_fn, guard_out>>
desVars == <<des_pc, des_doc, des_out, des_wire, des_again>>
\* what neither the generation call nor the guard call touches
batchVars == <<batch_pc, manifest, batch_i>>
twoVars == <<running, other>>
viewVars == <<scenario, heap, calls>>
othersVars == <<twoVars, viewVars>>
restVars == <<desVars, batchVars, othersVars>>
\* what a deserialization does not touch
besidesDes == <<genVars, guardVars, batchVars, othersVars>>
vars == <<pc, input, built, classes, classes_to_generate, generic_tokens,
          loop_i, module_body, main_class, dir_exists, files, error,
          guard_obj, guard_fn, guard_out,
          des_pc, des_doc, des_out, des_wire, des_again,
          batch_pc, manifest, batch_i, located, running, other,
          scenario, heap, calls>>

(***************************************************************************)
(* Strings                                                                 *)
(***************************************************************************)
LowerLetters == <<"a","b","c","d","e","f","g","h","i","j","k","l","m",
                  "n","o","p","q","r","s","t","u","v","w","x","y","z">>
UpperLetters == <<"A","B","C","D","E","F","G","H","I","J","K","L","M",
                  "N","O","P","Q","R","S","T","U","V","W","X","Y","Z">>

IsLower(c) == \E i \in 1..26 : LowerLetters[i] = c
IsUpper(c) == \E i \in 1..26 : UpperLetters[i] = c
ToUpper(c) == IF IsLower(c) THEN UpperLetters[CHOOSE i \in 1..26 : LowerLetters[i] = c] ELSE c
ToLower(c) == IF IsUpper(c) THEN LowerLetters[CHOOSE i \in 1..26 : UpperLetters[i] = c] ELSE c

\* str.replace(old, new) for a one-character old; new is a string (possibly empty)
RECURSIVE StrReplace(_, _, _)
StrReplace(s, old, new) ==
    IF s = <<>> THEN <<>>
    ELSE (IF Head(s) = old THEN new ELSE <<Head(s)>>) \o StrReplace(Tail(s), old, new)

\* str.title(): the first cased character of every run of cased characters is
\* upper-cased, the others lower-cased; an uncased character ends the run
RECURSIVE TitleFrom(_, _)
TitleFrom(s, prevCased) ==
    IF s = <<>> THEN <<>>
    ELSE LET c == Head(s) IN
         IF IsLower(c)
         THEN <<(IF prevCased THEN c ELSE ToUpper(c))>> \o TitleFrom(Tail(s), TRUE)
         ELSE IF IsUpper(c)
         THEN <<(IF prevCased THEN ToLower(c) ELSE c)>> \o TitleFrom(Tail(s), TRUE)
         ELSE <<c>> \o TitleFrom(Tail(s), FALSE)

StrTitle(s) == TitleFrom(s, FALSE)

\* s.split(".")[-1]
RECURSIVE LastSegment(_)
LastSegment(s) ==
    IF \A i \in 1..Len(s) : s[i] # "." THEN s
    ELSE LastSegment(Tail(s))

StartsWith(s, p) == Len(s) >= Len(p) /\ SubSeq(s, 1, Len(p)) = p

\* "with" -> "add" everywhere in s (str.replace with a longer pattern)
RECURSIVE ReplaceWithByAdd(_)
ReplaceWithByAdd(s) ==
    IF s = <<>> THEN <<>>
    ELSE IF StartsWith(s, <<"w","i","t","h">>)
         THEN <<"a","d","d">> \o ReplaceWithByAdd(SubSeq(s, 5, Len(s)))
         ELSE <<Head(s)>> \o ReplaceWithByAdd(Tail(s))

clean_property_name(prop_name) ==
    StrReplace(StrReplace(StrReplace(prop_name, "\"", <<>>), "'", <<>>), "-", <<"_">>)

generate_class_name(prop_name) ==
    StrTitle(StrReplace(clean_property_name(prop_name), "_", <<>>))

(***************************************************************************)
(* The node model (nodes.py)                                               *)
(***************************************************************************)
None == [cls |-> "NoneType"]

PrimitiveClasses == {"AnyType", "UnknownType", "UndefinedType", "NullType", "VoidType",
                     "StringType", "NumberType", "BooleanType", "NeverType"}

\* every class's bases: its method resolution order as a set (class statements of nodes.py)
CommonBases == {"TypeNode", "CommonTypeInfo", "Const", "Enum", "Annotations", "object"}
Mro(c) ==
    CASE c \in PrimitiveClasses      -> {c} \cup CommonBases
      [] c = "RefNode"               -> {"RefNode", "TypeNode", "object"}
      [] c = "RefType"               -> {"RefType", "RefNode", "TypeNode", "Annotations", "object"}
      [] c = "ObjectNode"            -> {"ObjectNode", "TypeNode", "object"}
      [] c = "ObjectType"            -> {"ObjectType", "ObjectNode"} \cup CommonBases
      [] c = "ArrayNode"             -> {"ArrayNode", "TypeNode", "object"}
      [] c = "ArrayType"             -> {"ArrayType", "ArrayNode"} \cup CommonBases
      [] c = "ConditionalNode"       -> {"ConditionalNode", "TypeNode", "object"}
      [] c = "ConditionalType"       -> {"ConditionalType", "ConditionalNode", "TypeNode",
                                         "Annotations", "object"}
      [] c = "TupleNode"             -> {"TupleNode", "TypeNode", "object"}
      [] c = "TupleType"             -> {"TupleType", "TupleNode"} \cup CommonBases
      [] c = "AndType"               -> {"AndType", "TypeNode", "Annotations", "object"}
      [] c = "OrType"                -> {"OrType", "TypeNode", "Annotations", "object"}
      [] c = "TemplateLiteralType"   -> {"TemplateLiteralType", "TypeNode", "Annotations", "object"}
      [] c = "RecordType"            -> {"RecordType", "TypeNode", "Annotations", "object"}
      [] c = "FunctionType"          -> {"FunctionType", "TypeNode", "Annotations", "object"}
      [] c = "NamedType"             -> {"NamedType", "Generic", "Annotations", "object"}
      [] c = "NamedTypeWithGenerics" -> {"NamedTypeWithGenerics", "NamedType", "Generic",
                                         "Annotations", "object"}
      [] c = "bool"                  -> {"bool", "int", "object"}
      [] OTHER                       -> {c, "object"}

IsInstance(obj, c) == c \in Mro(obj.cls)

\* TypeNode.__init__(type_name): the discriminant each constructor passes
TypeTag(c) ==
    CASE c = "AnyType" -> "any"        [] c = "UnknownType" -> "unknown"
      [] c = "UndefinedType" -> "undefined" [] c = "NullType" -> "null"
      [] c = "VoidType" -> "void"      [] c = "StringType" -> "string"
      [] c = "NumberType" -> "number"  [] c = "BooleanType" -> "boolean"
      [] c = "NeverType" -> "never"    [] c \in {"RefNode", "RefType"} -> "ref"
      [] c \in {"ObjectNode", "ObjectType"} -> "object"
      [] c \in {"ArrayNode", "ArrayType"} -> "array"
      [] c \in {"ConditionalNode", "ConditionalType"} -> "conditional"
      [] c \in {"TupleNode", "TupleType"} -> "tuple"
      [] c = "AndType" -> "and"        [] c = "OrType" -> "or"
      [] c = "TemplateLiteralType" -> "template"
      [] c = "RecordType" -> "record"  [] c = "FunctionType" -> "function"
      [] OTHER -> ""

\* constructors
Prim(c, const) ==
    [cls |-> c, type |-> TypeTag(c), const |-> const,
     name |-> <<>>, title |-> <<>>, description |-> <<>>]
RefType(ref, genericArguments, title, description) ==
    [cls |-> "RefType", type |-> "ref", ref |-> ref, genericArguments |-> genericArguments,
     name |-> <<>>, title |-> title, description |-> description]
ObjectProperty(required, node) ==
    [cls |-> "ObjectProperty", required |-> required, node |-> node]
\* properties: the dict in insertion order, a sequence of [key, value]
ObjectType(properties, extends, name, title) ==
    [cls |-> "ObjectType", type |-> "object", properties |-> properties, extends |-> extends,
     const |-> <<>>, name |-> name, title |-> title, description |-> <<>>]
ArrayType(elementType) ==
    [cls |-> "ArrayType", type |-> "array", elementType |-> elementType, const |-> <<>>,
     name |-> <<>>, title |-> <<>>, description |-> <<>>]
RecordType(keyType, valueType) ==
    [cls |-> "RecordType", type |-> "record", keyType |-> keyType, valueType |-> valueType,
     name |-> <<>>, title |-> <<>>, description |-> <<>>]
AndType(and_types, name) ==
    [cls |-> "AndType", type |-> "and", and_types |-> and_types,
     name |-> name, title |-> <<>>, description |-> <<>>]
OrType(or_types) ==
    [cls |-> "OrType", type |-> "or", or_types |-> or_types,
     name |-> <<>>, title |-> <<>>, description |-> <<>>]
TupleType(elementTypes, minItems) ==
    [cls |-> "TupleType", type |-> "tuple", elementTypes |-> elementTypes,
     minItems |-> minItems, const |-> <<>>,
     name |-> <<>>, title |-> <<>>, description |-> <<>>]
FunctionType(parameters, returnType) ==
    [cls |-> "FunctionType", type |-> "function", parameters |-> parameters,
     returnType |-> returnType, name |-> <<>>, title |-> <<>>, description |-> <<>>]
ConditionalType(check, value) ==
    [cls |-> "ConditionalType", type |-> "conditional", check |-> check, value |-> value,
     name |-> <<>>, title |-> <<>>, description |-> <<>>]
TemplateLiteralType(format) ==
    [cls |-> "TemplateLiteralType", type |-> "template", format |-> format,
     name |-> <<>>, title |-> <<>>, description |-> <<>>]
ParamTypeNode(symbol, constraints, default) ==
    [cls |-> "ParamTypeNode", symbol |-> symbol, constraints |-> constraints,
     default |-> default]
NamedType(base_node, name) ==
    [cls |-> "NamedType", base_node |-> base_node, name |-> name,
     source |-> "src", title |-> <<>>, description |-> <<>>]
NamedTypeWithGenerics(base_node, name, genericTokens) ==
    [cls |-> "NamedTypeWithGenerics", base_node |-> base_node, name |-> name,
     source |-> "src", genericTokens |-> genericTokens,
     title |-> <<>>, description |-> <<>>]

\* hasattr(obj, a); NamedType.__getattribute__ falls back to the wrapped node
RECURSIVE HasAttr(_, _)
HasAttr(obj, a) ==
    \/ a \in DOMAIN obj
    \/ /\ "base_node" \in DOMAIN obj
       /\ obj.cls \in {"NamedType", "NamedTypeWithGenerics"}
       /\ HasAttr(obj.base_node, a)

\* the node an attribute of obj is read from (NamedType.__getattribute__)
RECURSIVE AttrOwner(_, _)
AttrOwner(obj, a) ==
    IF a \in DOMAIN obj THEN obj ELSE AttrOwner(obj.base_node, a)

(***************************************************************************)
(* The type guards (guards.py)                                             *)
(***************************************************************************)
\* what a Python call gives: a returned boolean, or an exception
Ret(b) == [raised |-> FALSE, ret |-> b]
Raise  == [raised |-> TRUE, ret |-> FALSE]

is_any_type(obj)       == IsInstance(obj, "AnyType")
is_unknown_type(obj)   == IsInstance(obj, "UnknownType")
is_undefined_type(obj) == IsInstance(obj, "UndefinedType")
is_null_type(obj)      == IsInstance(obj, "NullType")
is_void_type(obj)      == IsInstance(obj, "VoidType")
is_string_type(obj)    == IsInstance(obj, "StringType")
is_number_type(obj)    == IsInstance(obj, "NumberType")
is_boolean_type(obj)   == IsInstance(obj, "BooleanType")
is_never_type(obj)     == IsInstance(obj, "NeverType")
is_ref_node(obj)       == IsInstance(obj, "RefNode")
is_ref_type(obj)       == IsInstance(obj, "RefType")
is_object_node(obj)    == IsInstance(obj, "ObjectNode")
is_array_node(obj)     == IsInstance(obj, "ArrayNode")
is_conditional_node(obj) == IsInstance(obj, "ConditionalNode")
is_conditional_type(obj) == IsInstance(obj, "ConditionalType")
is_tuple_node(obj)     == IsInstance(obj, "TupleNode")
is_tuple_type(obj)     == IsInstance(obj, "TupleType")
is_and_type(obj)       == IsInstance(obj, "AndType")
is_template_literal_type(obj) == IsInstance(obj, "TemplateLiteralType")
is_record_type(obj)    == IsInstance(obj, "RecordType")
is_function_type(obj)  == IsInstance(obj, "FunctionType")
is_type_node(obj)      == IsInstance(obj, "TypeNode")

is_named_type(obj) == IsInstance(obj, "NamedType") \/ IsInstance(obj, "NamedTypeWithGenerics")
is_named_type_with_generics(obj) == IsInstance(obj, "NamedTypeWithGenerics")

\* isinstance(obj, C) or (is_named_type(obj) and guard(obj.base_node)), evaluated
\* left to right; reading base_node of a value that has none raises
RECURSIVE UnwrappingGuard(_, _)
UnwrappingGuard(obj, c) ==
    IF IsInstance(obj, c) THEN Ret(TRUE)
    ELSE IF ~is_named_type(obj) THEN Ret(FALSE)
    ELSE IF ~HasAttr(obj, "base_node") THEN Raise
    ELSE UnwrappingGuard(obj.base_node, c)

is_object_type_call(obj) == UnwrappingGuard(obj, "ObjectType")
is_array_type_call(obj)  == UnwrappingGuard(obj, "ArrayType")
is_or_type_call(obj)     == UnwrappingGuard(obj, "OrType")

is_object_type(obj) == is_object_type_call(obj).ret
is_array_type(obj)  == is_array_type_call(obj).ret
is_or_type(obj)     == is_or_type_call(obj).ret

is_node_type_call(obj) ==
    LET o == is_object_type_call(obj)
        a == is_array_type_call(obj)
        u == is_or_type_call(obj)
    IN  \* the disjuncts in the order of the source, the first true one ends the evaluation
        IF is_any_type(obj) \/ is_unknown_type(obj) \/ is_undefined_type(obj)
           \/ is_null_type(obj) \/ is_never_type(obj) \/ is_string_type(obj)
           \/ is_template_literal_type(obj) \/ is_number_type(obj) \/ is_boolean_type(obj)
        THEN Ret(TRUE)
        ELSE IF o.raised \/ o.ret THEN o
        ELSE IF a.raised \/ a.ret THEN a
        ELSE IF is_tuple_type(obj) \/ is_record_type(obj) \/ is_and_type(obj) THEN Ret(TRUE)
        ELSE IF u.raised \/ u.ret THEN u
        ELSE Ret(is_ref_type(obj) \/ is_function_type(obj) \/ is_conditional_type(obj)
                 \/ is_void_type(obj))

is_node_type(obj) == is_node_type_call(obj).ret

\* a slip: one of the 9 primitive classes is left out
is_primitive_type_without_void(obj) ==
    \/ is_never_type(obj) \/ is_null_type(obj) \/ is_string_type(obj)
    \/ is_number_type(obj) \/ is_boolean_type(obj) \/ is_any_type(obj)
    \/ is_unknown_type(obj) \/ is_undefined_type(obj)

is_primitive_type(obj) ==
    \/ is_never_type(obj) \/ is_null_type(obj) \/ is_string_type(obj)
    \/ is_number_type(obj) \/ is_boolean_type(obj) \/ is_any_type(obj)
    \/ is_unknown_type(obj) \/ is_undefined_type(obj) \/ is_void_type(obj)

\* a plausible slip: the const is read without the is_primitive_type test before it
is_primitive_const_call_unguarded(obj) ==
    IF ~HasAttr(obj, "const") THEN Raise
    ELSE Ret(AttrOwner(obj, "const").const # <<>>)

\* is_primitive_type(obj) and obj.const is not None
is_primitive_const_call(obj) ==
    IF ~is_primitive_type(obj) THEN Ret(FALSE)
    ELSE IF ~HasAttr(obj, "const") THEN Raise
    ELSE Ret(obj.const # <<>>)

is_primitive_const(obj) == is_primitive_const_call(obj).ret

\* the 19 predicates, one per discriminant, that is_node_type is made of
BaseVariantGuards ==
    {"is_any_type", "is_unknown_type", "is_undefined_type", "is_null_type", "is_never_type",
     "is_string_type", "is_template_literal_type", "is_number_type", "is_boolean_type",
     "is_object_type", "is_array_type", "is_tuple_type", "is_record_type", "is_and_type",
     "is_or_type", "is_ref_type", "is_function_type", "is_conditional_type", "is_void_type"}

GuardNames ==
    BaseVariantGuards \cup
    {"is_ref_node", "is_object_node", "is_array_node", "is_conditional_node", "is_tuple_node",
     "is_type_node", "is_node_type", "is_named_type", "is_named_type_with_generics",
     "is_primitive_type", "is_primitive_const"}

\* the call guard(obj) of the guard named g
GuardCall(g, obj) ==
    CASE g = "is_any_type"       -> Ret(is_any_type(obj))
      [] g = "is_unknown_type"   -> Ret(is_unknown_type(obj))
      [] g = "is_undefined_type" -> Ret(is_undefined_type(obj))
      [] g = "is_null_type"      -> Ret(is_null_type(obj))
      [] g = "is_void_type"      -> Ret(is_void_type(obj))
      [] g = "is_string_type"    -> Ret(is_string_type(obj))
      [] g = "is_number_type"    -> Ret(is_number_type(obj))
      [] g = "is_boolean_type"   -> Ret(is_boolean_type(obj))
      [] g = "is_never_type"     -> Ret(is_never_type(obj))
      [] g = "is_ref_node"       -> Ret(is_ref_node(obj))
      [] g = "is_ref_type"       -> Ret(is_ref_type(obj))
      [] g = "is_object_node"    -> Ret(is_object_node(obj))
      [] g = "is_object_type"    -> is_object_type_call(obj)
      [] g = "is_array_node"     -> Ret(is_array_node(obj))
      [] g = "is_array_type"     -> is_array_type_call(obj)
      [] g = "is_conditional_node" -> Ret(is_conditional_node(obj))
      [] g = "is_conditional_type" -> Ret(is_conditional_type(obj))
      [] g = "is_tuple_node"     -> Ret(is_tuple_node(obj))
      [] g = "is_tuple_type"     -> Ret(is_tuple_type(obj))
      [] g = "is_and_type"       -> Ret(is_and_type(obj))
      [] g = "is_or_type"        -> is_or_type_call(obj)
      [] g = "is_template_literal_type" -> Ret(is_template_literal_type(obj))
      [] g = "is_record_type"    -> Ret(is_record_type(obj))
      [] g = "is_function_type"  -> Ret(is_function_type(obj))
      [] g = "is_type_node"      -> Ret(is_type_node(obj))
      [] g = "is_node_type"      -> is_node_type_call(obj)
      [] g = "is_named_type"     -> Ret(is_named_type(obj))
      [] g = "is_named_type_with_generics" -> Ret(is_named_type_with_generics(obj))
      [] g = "is_primitive_type" -> Ret(is_primitive_type(obj))
      [] g = "is_primitive_const" -> is_primitive_const_call(obj)

(***************************************************************************)
(* Guard calls: the values the guards are called with                      *)
(***************************************************************************)
\* how deep NamedType wrappers are nested in the values tried
MaxWrapDepth == 2

StringNode  == Prim("StringType", <<>>)
NumberNode  == Prim("NumberType", <<>>)
BooleanNode == Prim("BooleanType", <<>>)

\* one instance (two for the primitives: with and without const) of every node class
SampleNodes ==
    {Prim(c, k) : c \in PrimitiveClasses, k \in {<<>>, <<"c">>}} \cup
    { RefType(<<"t","e","s","t",".","r","e","f">>, <<>>, <<>>, <<>>),
      ObjectType(<<>>, None, <<>>, <<>>),
      ObjectType(<<[key |-> <<"a">>, value |-> ObjectProperty(TRUE, StringNode)]>>,
                 None, <<>>, <<>>),
      ArrayType(StringNode),
      TupleType(<<[cls |-> "TupleMember", type |-> StringNode, name |-> <<>>,
                   optional |-> <<>>]>>, 1),
      RecordType(StringNode, NumberNode),
      AndType(<<StringNode, NumberNode>>, <<>>),
      OrType(<<StringNode, NumberNode>>),
      FunctionType(<<>>, StringNode),
      ConditionalType(StringNode, BooleanNode),
      TemplateLiteralType("test_${string}_template"),
      \* the un-annotated node classes
      [cls |-> "RefNode", type |-> "ref", ref |-> <<"r">>, genericArguments |-> <<>>],
      [cls |-> "ObjectNode", type |-> "object", properties |-> <<>>, extends |-> None],
      [cls |-> "ArrayNode", type |-> "array", elementType |-> StringNode],
      [cls |-> "TupleNode", type |-> "tuple", elementTypes |-> <<>>, minItems |-> 0],
      [cls |-> "ConditionalNode", type |-> "conditional", check |-> StringNode,
       value |-> BooleanNode] }

\* None and values that are no IR node
NonNodeValues ==
    { None,
      [cls |-> "str", repr |-> "not a type"], [cls |-> "str", repr |-> ""],
      [cls |-> "int", repr |-> "123"], [cls |-> "int", repr |-> "0"],
      [cls |-> "bool", repr |-> "True"], [cls |-> "bool", repr |-> "False"],
      [cls |-> "list", repr |-> "[]"], [cls |-> "dict", repr |-> "{}"],
      [cls |-> "set", repr |-> "set()"], [cls |-> "tuple", repr |-> "()"],
      [cls |-> "function", repr |-> "lambda x: x"],
      ObjectProperty(TRUE, StringNode),
      [cls |-> "TupleMember", type |-> StringNode, name |-> <<>>, optional |-> <<>>],
      [cls |-> "FunctionTypeParameters", name |-> <<"p">>, type |-> StringNode,
       optional |-> <<>>, default |-> None],
      ParamTypeNode(<<"T">>, None, StringNode) }

RECURSIVE WrappedValues(_)
WrappedValues(depth) ==
    IF depth = 0 THEN SampleNodes \cup {None, [cls |-> "str", repr |-> "not a type"]}
    ELSE LET inner == WrappedValues(depth - 1) IN
         inner \cup {NamedType(n, <<"N">>) : n \in inner}
               \cup {NamedTypeWithGenerics(n, <<"N">>, <<>>) : n \in inner}

GuardValues == WrappedValues(MaxWrapDepth) \cup NonNodeValues

NoCalls == [g \in {} |-> Ret(FALSE)]

(***************************************************************************)
(* The generator at rest, and the guards at rest                           *)
(***************************************************************************)
GenIdle ==
    /\ pc = "idle"
    /\ input = [root |-> None, type |-> <<"a","s","s","e","t">>]
    /\ built = FALSE
    /\ classes = <<>>
    /\ classes_to_generate = <<>>
    /\ generic_tokens = <<>>
    /\ loop_i = 0
    /\ module_body = <<>>
    /\ main_class = <<>>
    /\ error = ""
    /\ located = {}

GuardsIdle ==
    /\ guard_obj = None
    /\ guard_fn = ""
    /\ guard_out = NoCalls

\* no document given to the deserializer yet
DesIdle ==
    /\ des_pc = "idle"
    /\ des_doc = None
    /\ des_out = None
    /\ des_wire = None
    /\ des_again = None

\* what a call of generate_python_classes has of its own, before the call
IdleCall ==
    [pc |-> "idle", input |-> [root |-> None, type |-> <<"a","s","s","e","t">>],
     built |-> FALSE, classes |-> <<>>, classes_to_generate |-> <<>>,
     generic_tokens |-> <<>>, loop_i |-> 0, module_body |-> <<>>, main_class |-> <<>>,
     error |-> ""]
\* no second call
TwoIdle == running = 1 /\ other = IdleCall
\* the generated module not used yet, no asset built
ViewIdle ==
    /\ scenario = [pc |-> "start", error |-> "", result |-> <<>>]
    /\ heap = <<>>
    /\ calls = <<>>
OthersIdle == TwoIdle /\ ViewIdle

\* no batch run
BatchIdle ==
    /\ batch_pc = "start"
    /\ manifest = [Assets |-> <<>>, Views |-> <<>>]
    /\ batch_i = 1

(***************************************************************************)
(* Specification SpecGuards: guards called with every kind of value        *)
(***************************************************************************)
GuardInit ==
    /\ GenIdle
    /\ dir_exists = FALSE
    /\ files = {}
    /\ guard_obj \in GuardValues
    /\ guard_fn = ""
    /\ guard_out = NoCalls
    /\ DesIdle
    /\ BatchIdle
    /\ OthersIdle

\* one guard is called with the value
CallGuard ==
    \E g \in GuardNames :
        /\ guard_fn' = g
        /\ guard_out' = [h \in {g} |-> GuardCall(h, guard_obj)]
        /\ UNCHANGED <<guard_obj, genVars, restVars>>

\* every guard is called with the value (test_guards_with_none)
CallAllGuards ==
    /\ guard_fn' = "all"
    /\ guard_out' = [g \in GuardNames |-> GuardCall(g, guard_obj)]
    /\ UNCHANGED <<guard_obj, genVars, restVars>>

GuardNext == CallGuard \/ CallAllGuards

SpecGuards == GuardInit /\ [][GuardNext]_vars

(***************************************************************************)
(* Claims about the guards                                                 *)
(***************************************************************************)
IsNonNodeValue(v) == v \in NonNodeValues

\* the guards that are true of v
TrueGuards(v, gs) == {g \in gs : g \in DOMAIN guard_out /\ guard_out[g].ret}

\* C8: guard totality.  Every guard called with None or with a value that is no IR
\* node (a string, a number, a boolean, a list, a dict, an ObjectProperty, a function,
\* ...) returns False and does not raise.
C8_GuardTotality ==
    IsNonNodeValue(guard_obj) =>
        \A g \in DOMAIN guard_out :
            ~guard_out[g].raised /\ guard_out[g].ret = FALSE

C8_Witness ==
    /\ guard_obj = None
    /\ DOMAIN guard_out = GuardNames
    /\ guard_out["is_primitive_const"] = Ret(FALSE)

\* C9: named-wrapper transparency.  Every base-variant predicate that is true of a
\* node n is true of NamedType(n) and of NamedTypeWithGenerics(n).
C9_AllGuardsSeeThroughNamed ==
    \A g \in BaseVariantGuards \cap DOMAIN guard_out :
        (is_named_type(guard_obj) /\ GuardCall(g, guard_obj.base_node).ret)
            => guard_out[g].ret

\* C9 fails here: is_string_type is true of a StringType and false of the NamedType
\* that wraps it
C9_Witness ==
    /\ guard_obj = NamedType(StringNode, <<"N">>)
    /\ GuardCall("is_string_type", guard_obj.base_node) = Ret(TRUE)
    /\ "is_string_type" \in DOMAIN guard_out
    /\ guard_out["is_string_type"] = Ret(FALSE)

\* the three guards written with the clause for the named wrappers
NamedTransparentGuards == {"is_object_type", "is_array_type", "is_or_type"}

\* the part of C9 that the guards do keep: is_object_type, is_array_type and
\* is_or_type, when true of a node n, are true of NamedType(n) and of
\* NamedTypeWithGenerics(n)
ObjectArrayOrSeeThroughNamed ==
    \A g \in NamedTransparentGuards \cap DOMAIN guard_out :
        (is_named_type(guard_obj) /\ GuardCall(g, guard_obj.base_node).ret)
            => (~guard_out[g].raised /\ guard_out[g].ret)

\* C10: of the 19 base-variant predicates at most one is true of a value;
\* is_node_type is true exactly when one of them is; is_primitive_type is true exactly
\* of the instances of the 9 primitive classes; is_primitive_const is true exactly of
\* the primitives whose const is not None.
C10_GuardPartition ==
    (DOMAIN guard_out = GuardNames) =>
        LET true == TrueGuards(guard_obj, BaseVariantGuards) IN
        /\ \A g \in GuardNames : ~guard_out[g].raised
        /\ Cardinality(true) <= 1
        /\ guard_out["is_node_type"].ret <=> (Cardinality(true) = 1)
        /\ guard_out["is_primitive_type"].ret <=> (guard_obj.cls \in PrimitiveClasses)
        /\ guard_out["is_primitive_const"].ret <=>
               (guard_obj.cls \in PrimitiveClasses /\ guard_obj.const # <<>>)

C10_Witness ==
    /\ DOMAIN guard_out = GuardNames
    /\ guard_obj.cls = "NamedType"
    /\ guard_obj.base_node.cls = "ArrayType"
    /\ TrueGuards(guard_obj, BaseVariantGuards) = {"is_array_type"}
    /\ guard_out["is_node_type"].ret

(***************************************************************************)
(* The generator (generator.py, utils.py): syntax trees                    *)
(***************************************************************************)
\* COMMON_AST_NODES[key]
CommonKeys == {"string", "number", "boolean", "Any", "None", "Asset", "Optional", "List",
               "Union", "Dict", "Literal", "self", "super"}
Common(key) == [k |-> "Common", key |-> key]
\* ast.Name(id=...); quoted: the id is written between single quotes
Name(id, quoted) == [k |-> "Name", id |-> id, quoted |-> quoted]
\* ast.Constant(value=...)
Constant(value) == [k |-> "Constant", value |-> value]
Subscript(value, slice) == [k |-> "Subscript", value |-> value, slice |-> slice]
TupleAst(elts) == [k |-> "Tuple", elts |-> elts]
\* the Python value None where the code puts it in a list of defaults
PyNone == [k |-> "PyNone"]

s_with  == <<"w","i","t","h">>
s_id    == <<"i","d">>
s_self  == <<"s","e","l","f">>
s_str   == <<"s","t","r">>
s_type  == <<"t","y","p","e">>
s_Asset == <<"A","s","s","e","t">>
s_AssetWrapper == <<"A","s","s","e","t","W","r","a","p","p","e","r">>
s_Expression == <<"E","x","p","r","e","s","s","i","o","n">>
s_Binding == <<"B","i","n","d","i","n","g">>
s_Slotable == <<"S","l","o","t","a","b","l","e">>
s_Merged == <<"M","e","r","g","e","d">>
s_validation == <<"v","a","l","i","d","a","t","i","o","n">>
s_intersection == <<"_","i","n","t","e","r","s","e","c","t","i","o","n">>
s_ERROR == <<"E","R","R","O","R","E","R","R","O","R","E","R","R","O","R">>
s_asset == <<"a","s","s","e","t">>
s_view  == <<"v","i","e","w">>
s_py    == <<".","p","y">>

\* a Python list passed where the code expects a node
PyList(items) == [cls |-> "list", items |-> items]

\* attributes read through NamedType.__getattribute__
Properties(node)  == AttrOwner(node, "properties").properties
ElementType(node) == AttrOwner(node, "elementType").elementType
OrTypes(node)     == AttrOwner(node, "or_types").or_types

\* dict[key] = value on a dict kept as the sequence of its items
DictHas(d, key) == \E i \in 1..Len(d) : d[i].key = key
DictGet(d, key) == d[CHOOSE i \in 1..Len(d) : d[i].key = key].value
DictSet(d, key, value) ==
    IF DictHas(d, key)
    THEN [i \in 1..Len(d) |-> IF d[i].key = key THEN [key |-> key, value |-> value] ELSE d[i]]
    ELSE Append(d, [key |-> key, value |-> value])

InSeq(x, seq) == \E i \in 1..Len(seq) : seq[i] = x

\* a slip: the name is scheduled without looking whether it is scheduled already
ScheduleAlways(G, class_name, object_type) ==
    [G EXCEPT !.classes = Append(@, class_name),
              !.ctg = DictSet(@, class_name, object_type)]

\* the bookkeeping of one ClassGenerator, threaded through its methods:
\* [classes, ctg (classes_to_generate), tokens (generic_tokens), err]
Schedule(G, class_name, object_type) ==
    IF InSeq(class_name, G.classes) THEN G
    ELSE [G EXCEPT !.classes = Append(@, class_name),
                   !.ctg = DictSet(@, class_name, object_type)]

(***************************************************************************)
(* Discovery: _collect_nested_objects, _collect_from_object_type           *)
(***************************************************************************)
\* the name _collect_from_object_type gives an ObjectType that is no NamedType
DiscoveredName(node, parent_prop) ==
    StrTitle(IF node.title # <<>>
             THEN generate_class_name(LastSegment(node.title))
             ELSE parent_prop)

RECURSIVE _collect_nested_objects(_, _, _)
RECURSIVE _collect_from_object_type(_, _, _)
RECURSIVE CollectEach(_, _, _)
RECURSIVE CollectTokens(_, _, _)
RECURSIVE CollectProperties(_, _)

\* for element in elements: self._collect_nested_objects(element, parent_prop)
CollectEach(elements, parent_prop, G) ==
    IF elements = <<>> THEN G
    ELSE CollectEach(Tail(elements), parent_prop,
                     _collect_nested_objects(Head(elements), parent_prop, G))

\* for generic_token in node.genericTokens: ...
CollectTokens(tokens, parent_prop, G) ==
    IF tokens = <<>> THEN G
    ELSE LET token == Head(tokens).default
             symbol == Head(tokens).symbol
             G1 == IF ~is_ref_type(token) /\ is_object_type(token) /\ ~DictHas(G.ctg, symbol)
                   THEN _collect_nested_objects(token, parent_prop, G)
                   ELSE G
         IN CollectTokens(Tail(tokens), parent_prop, G1)

\* for prop_name, prop_obj in node.properties.items(): ...
CollectProperties(props, G) ==
    IF props = <<>> THEN G
    ELSE CollectProperties(Tail(props),
                           _collect_nested_objects(Head(props).value.node, Head(props).key, G))

_collect_from_object_type(node, parent_prop, G) ==
    CollectProperties(
        Properties(node),
        Schedule(IF is_named_type_with_generics(node)
                 THEN CollectTokens(node.genericTokens, parent_prop, G)
                 ELSE G,
                 IF is_named_type(node) THEN node.name
                 ELSE DiscoveredName(node, parent_prop),
                 node))

_collect_nested_objects(node, parent_prop, G) ==
    IF is_object_type(node)
    THEN _collect_from_object_type(node, IF parent_prop # <<>> THEN parent_prop ELSE s_ERROR, G)
    ELSE IF is_array_type(node)
    THEN _collect_nested_objects(ElementType(node), parent_prop, G)
    ELSE IF is_or_type(node)
    THEN CollectEach(OrTypes(node), parent_prop, G)
    ELSE IF is_and_type(node)
    THEN CollectEach(node.and_types, parent_prop, G)
    ELSE G

\* dict((obj.symbol, obj) for obj in genericTokens)
RECURSIVE TokenDict(_)
TokenDict(tokens) ==
    IF tokens = <<>> THEN <<>>
    ELSE DictSet(TokenDict(SubSeq(tokens, 1, Len(tokens) - 1)),
                 tokens[Len(tokens)].symbol, tokens[Len(tokens)])

\* ClassGenerator.__init__
ClassGeneratorInit(named_object_type) ==
    _collect_nested_objects(
        named_object_type, <<>>,
        [classes |-> <<named_object_type.name>>,
         ctg |-> <<>>,
         tokens |-> IF is_named_type_with_generics(named_object_type)
                    THEN TokenDict(named_object_type.genericTokens)
                    ELSE <<>>,
         err |-> ""])

(***************************************************************************)
(* Type mapping: _convert_xlr_to_ast and what it calls.  Every operator    *)
(* gives [ast, G]: the annotation and the bookkeeping after the call.      *)
(***************************************************************************)
\* a Python truth test of a const: None and "" are false
Truthy(const) == const # <<>> /\ const[1] # ""

\* return ast, with the bookkeeping as it is
Ok(ast, G) == [ast |-> ast, G |-> G]
\* the start of a list comprehension or of a loop that appends
NoneYet(G) == [asts |-> <<>>, G |-> G]
\* list.append(r) where r came from a call that left the bookkeeping r.G
Push(acc, r) == [asts |-> Append(acc.asts, r.ast), G |-> r.G]

\* _flatten_and_types
RECURSIVE _flatten_and_types(_)
_flatten_and_types(and_types) ==
    IF and_types = <<>> THEN <<>>
    ELSE (IF is_and_type(Head(and_types))
          THEN _flatten_and_types(Head(and_types).and_types)
          ELSE <<Head(and_types)>>) \o _flatten_and_types(Tail(and_types))

\* a slip: on a conflict the later definition replaces the earlier one, required included
RECURSIVE MergePropertiesOverride(_, _)
MergePropertiesOverride(merged, props) ==
    IF props = <<>> THEN merged
    ELSE MergePropertiesOverride(DictSet(merged, Head(props).key, Head(props).value),
                                 Tail(props))

\* the loop of _merge_object_types over one constituent's properties
RECURSIVE MergeProperties(_, _)
MergeProperties(merged, props) ==
    IF props = <<>> THEN merged
    ELSE LET key == Head(props).key
             prop_obj == Head(props).value
             new == IF DictHas(merged, key)
                    THEN ObjectProperty(DictGet(merged, key).required \/ prop_obj.required,
                                        prop_obj.node)
                    ELSE prop_obj
         IN MergeProperties(DictSet(merged, key, new), Tail(props))

\* actual_obj_type = obj_type.base_node if is_named_type(obj_type) else obj_type
ActualObjType(obj_type) == IF is_named_type(obj_type) THEN obj_type.base_node ELSE obj_type

\* the loop of _merge_object_types over the constituents
RECURSIVE MergedProperties(_, _)
MergedProperties(merged, object_types) ==
    IF object_types = <<>> THEN merged
    ELSE MergedProperties(
             IF is_object_type(ActualObjType(Head(object_types)))
             THEN MergeProperties(merged, Properties(ActualObjType(Head(object_types))))
             ELSE merged,
             Tail(object_types))

\* the type_names of _generate_merged_class_name, joined
RECURSIVE JoinedTypeNames(_)
JoinedTypeNames(object_types) ==
    IF object_types = <<>> THEN <<>>
    ELSE LET obj_type == Head(object_types) IN
         (IF is_named_type(obj_type) THEN obj_type.name
          ELSE IF HasAttr(obj_type, "name") /\ obj_type.name # <<>> THEN obj_type.name
          ELSE <<>>) \o JoinedTypeNames(Tail(object_types))

\* merged_name of _generate_merged_class_name, from clean_base and the joined type_names
MergedName(clean_base, type_names) ==
    IF type_names # <<>> THEN type_names \o clean_base ELSE s_Merged \o clean_base

_generate_merged_class_name(base_name, object_types) ==
    MergedName(StrTitle(StrReplace(clean_property_name(base_name), "_", <<>>)),
               JoinedTypeNames(object_types))

\* the end of _merge_object_types: the class is scheduled and referred to by its name
ScheduleMerged(merged_class_name, merged_obj_type, G) ==
    Ok(Name(merged_class_name, FALSE), Schedule(G, merged_class_name, merged_obj_type))

_merge_object_types(object_types, prop_name, name, G) ==
    ScheduleMerged(IF name # <<>> THEN name
                   ELSE _generate_merged_class_name(prop_name, object_types),
                   ObjectType(MergedProperties(<<>>, object_types), None, <<>>, <<>>),
                   G)

_handle_ref_type(node, G) ==
    LET ref_name == node.ref
        has == DictHas(G.tokens, ref_name)
        default == IF has THEN DictGet(G.tokens, ref_name).default ELSE None
    IN IF has /\ default # None /\ HasAttr(default, "name")
          /\ AttrOwner(default, "name").name # <<>>
       THEN Name(AttrOwner(default, "name").name, FALSE)
       ELSE IF StartsWith(ref_name, s_AssetWrapper) THEN Common("Asset")
       ELSE IF ref_name \in {s_Expression, s_Binding} THEN Common("string")
       ELSE Name(ref_name, FALSE)

\* Literal[...] / Union[...] / List[...] / Dict[..., ...] subscripts
LiteralOf(elts) == Subscript(Common("Literal"), TupleAst(elts))
UnionOf(elts)   == Subscript(Common("Union"), TupleAst(elts))
ListOf(r) == [r EXCEPT !.ast = Subscript(Common("List"), @)]
DictOf(key, val) ==
    Ok(Subscript(Common("Dict"), TupleAst(<<key.ast, val.ast>>)), val.G)

\* if len(types) == 1: return types[0]; else Union[types]
OneOrUnion(r) == Ok(IF Len(r.asts) = 1 THEN r.asts[1] ELSE UnionOf(r.asts), r.G)

\* the combinations _handle_intersection_with_unions builds from the unions after the first
RECURSIVE Combinations(_, _)
Combinations(current, unions) ==
    IF unions = <<>> THEN current
    ELSE LET members == OrTypes(Head(unions))
             \* for existing in current: for union_member in members: [existing, member]
             new == [i \in 1..(Len(current) * Len(members)) |->
                        PyList(<<current[((i - 1) \div Len(members)) + 1],
                                 members[((i - 1) % Len(members)) + 1]>>)]
         IN Combinations(new, Tail(unions))

\* combination + non_union_types, or [combination] + non_union_types
IntersectionCandidate(combination, non_union_types) ==
    IF combination.cls = "list" THEN combination.items \o non_union_types
    ELSE <<combination>> \o non_union_types

AllObjectTypes(types) == \A i \in 1..Len(types) : is_object_type(types[i])
AllPrimitiveConst(types) == \A i \in 1..Len(types) : is_primitive_const(types[i])

RECURSIVE _convert_xlr_to_ast(_, _, _)
RECURSIVE ConvertEach(_, _, _)
RECURSIVE ConvertRecord(_, _, _)
RECURSIVE _handle_or_type(_, _, _)
RECURSIVE OrMembers(_, _, _)
RECURSIVE _handle_and_type(_, _, _)
RECURSIVE HandleFlattened(_, _, _, _)
RECURSIVE _handle_intersection_with_unions(_, _, _)
RECURSIVE IntersectOne(_, _, _)
RECURSIVE IntersectCombinations(_, _, _, _)

\* [self._convert_xlr_to_ast(t, prop_name) for t in nodes], appended to acc
ConvertEach(nodes, prop_name, acc) ==
    IF nodes = <<>> THEN acc
    ELSE ConvertEach(Tail(nodes), prop_name,
                     Push(acc, _convert_xlr_to_ast(Head(nodes), prop_name, acc.G)))

\* the record branch of _convert_xlr_to_ast once the key type is converted
ConvertRecord(node, prop_name, key) ==
    DictOf(key, _convert_xlr_to_ast(node.valueType, prop_name, key.G))

\* the loop of the Union branch of _handle_or_type
OrMembers(or_types, prop_name, acc) ==
    IF or_types = <<>> THEN acc
    ELSE OrMembers(Tail(or_types), prop_name,
                   Push(acc, IF ~is_primitive_const(Head(or_types))
                             THEN _convert_xlr_to_ast(Head(or_types), prop_name, acc.G)
                             ELSE Ok(LiteralOf(<<Constant(Head(or_types).const[1])>>),
                                     acc.G)))

_handle_or_type(node, prop_name, G) ==
    IF AllPrimitiveConst(OrTypes(node))
    THEN LET union_types == [i \in 1..Len(OrTypes(node)) |->
                                Constant(OrTypes(node)[i].const[1])]
         IN Ok(IF Len(union_types) = 1 THEN union_types[1] ELSE LiteralOf(union_types), G)
    ELSE OneOrUnion(OrMembers(OrTypes(node), prop_name, NoneYet(G)))

\* the body of the loop of _handle_intersection_with_unions over the combinations
IntersectOne(intersection_candidate, prop_name, G) ==
    IF AllObjectTypes(intersection_candidate)
    THEN _merge_object_types(intersection_candidate, prop_name \o s_intersection, <<>>, G)
    ELSE OneOrUnion(ConvertEach(intersection_candidate, prop_name, NoneYet(G)))

\* the loop of _handle_intersection_with_unions over the combinations
IntersectCombinations(combinations, non_union_types, prop_name, acc) ==
    IF combinations = <<>> THEN acc
    ELSE IntersectCombinations(
             Tail(combinations), non_union_types, prop_name,
             Push(acc, IntersectOne(IntersectionCandidate(Head(combinations),
                                                          non_union_types),
                                    prop_name, acc.G)))

_handle_intersection_with_unions(and_types, prop_name, G) ==
    IF Len(SelectSeq(and_types, is_or_type)) = 0
    THEN _convert_xlr_to_ast(and_types[1], prop_name, G)
    ELSE OneOrUnion(IntersectCombinations(
             Combinations(OrTypes(SelectSeq(and_types, is_or_type)[1]),
                          Tail(SelectSeq(and_types, is_or_type))),
             SelectSeq(and_types, LAMBDA t : ~is_or_type(t)),
             prop_name, NoneYet(G)))

\* _handle_and_type after the nested intersections are flattened
HandleFlattened(and_types, node, prop_name, G) ==
    IF AllObjectTypes(and_types)
    THEN _merge_object_types(and_types, prop_name, node.name, G)
    ELSE IF \E i \in 1..Len(and_types) : is_or_type(and_types[i])
    THEN _handle_intersection_with_unions(and_types, prop_name, G)
    ELSE OneOrUnion(ConvertEach(and_types, prop_name, NoneYet(G)))

_handle_and_type(node, prop_name, G) ==
    HandleFlattened(IF \E i \in 1..Len(node.and_types) : is_and_type(node.and_types[i])
                    THEN _flatten_and_types(node.and_types)
                    ELSE node.and_types,
                    node, prop_name, G)

_convert_xlr_to_ast(node, prop_name, G) ==
    IF is_primitive_const(node) THEN Ok(Constant(node.const[1]), G)
    ELSE IF is_string_type(node) THEN Ok(Common("string"), G)
    ELSE IF is_number_type(node) THEN Ok(Common("number"), G)
    ELSE IF is_boolean_type(node) THEN Ok(Common("boolean"), G)
    ELSE IF is_null_type(node) \/ is_unknown_type(node) \/ is_undefined_type(node)
    THEN Ok(Common("None"), G)
    ELSE IF is_any_type(node) THEN Ok(Common("Any"), G)
    ELSE IF is_array_type(node)
    THEN ListOf(_convert_xlr_to_ast(ElementType(node), prop_name, G))
    ELSE IF is_record_type(node)
    THEN ConvertRecord(node, prop_name, _convert_xlr_to_ast(node.keyType, prop_name, G))
    ELSE IF is_object_type(node)
    THEN Ok(Name(IF is_named_type(node) THEN node.name
                 ELSE generate_class_name(prop_name), TRUE), G)
    ELSE IF is_or_type(node) THEN _handle_or_type(node, prop_name, G)
    ELSE IF is_and_type(node) THEN _handle_and_type(node, prop_name, G)
    ELSE IF is_ref_type(node) THEN Ok(_handle_ref_type(node, G), G)
    ELSE Ok(Common("Any"), G)

(***************************************************************************)
(* Per-class emission                                                      *)
(***************************************************************************)
_make_optional_type(python_type) == Subscript(Common("Optional"), python_type)

\* is_ref_type(prop_obj.node) and self.generic_tokens.get(prop_obj.node.ref, None)
IsGenericRef(prop_obj, G) ==
    is_ref_type(prop_obj.node) /\ DictHas(G.tokens, prop_obj.node.ref)

\* node = self.generic_tokens[ref].default; node.title = ...; node.description = ...
\* (the default itself gets the title and description: the deepcopy is dropped)
SubstitutedNode(prop_obj, G) ==
    [DictGet(G.tokens, prop_obj.node.ref).default EXCEPT
        !.title = prop_obj.node.title,
        !.description = prop_obj.node.description]

\* the node _get_properties_info goes on with
ResolvedNode(prop_obj, G) ==
    IF IsGenericRef(prop_obj, G) THEN SubstitutedNode(prop_obj, G) ELSE prop_obj.node

\* the generic tokens after the substitution wrote into the default
AfterSubstitution(prop_obj, G) ==
    IF IsGenericRef(prop_obj, G)
    THEN [G EXCEPT !.tokens =
             DictSet(@, prop_obj.node.ref,
                     [DictGet(@, prop_obj.node.ref) EXCEPT
                         !.default = SubstitutedNode(prop_obj, G)])]
    ELSE G

\* properties_info.append(PropertyInfo(...))
AppendInfo(acc, original_name, prop_obj, node, python_type) ==
    [infos |-> Append(acc.infos,
                      [clean_name |-> clean_property_name(original_name),
                       original_name |-> original_name,
                       node |-> node,
                       required |-> prop_obj.required,
                       type |-> IF ~prop_obj.required
                                THEN _make_optional_type(python_type.ast)
                                ELSE python_type.ast]),
     G |-> python_type.G]

\* one pass of the loop of _get_properties_info
OneProperty(original_name, prop_obj, acc) ==
    IF IsGenericRef(prop_obj, acc.G)
       /\ DictGet(acc.G.tokens, prop_obj.node.ref).default = None
    THEN \* node is None: node.title = ... raises
         [acc EXCEPT !.G.err = "AttributeError"]
    ELSE AppendInfo(acc, original_name, prop_obj, ResolvedNode(prop_obj, acc.G),
                    _convert_xlr_to_ast(ResolvedNode(prop_obj, acc.G),
                                        clean_property_name(original_name),
                                        AfterSubstitution(prop_obj, acc.G)))

\* the loop of _get_properties_info; an exception ends it
RECURSIVE PropertiesInfo(_, _)
PropertiesInfo(props, acc) ==
    IF props = <<>> \/ acc.G.err # "" THEN acc
    ELSE PropertiesInfo(Tail(props), OneProperty(Head(props).key, Head(props).value, acc))

\* _get_properties_info: [infos, G]
_get_properties_info(object_type, G) ==
    PropertiesInfo(Properties(object_type), [infos |-> <<>>, G |-> G])

\* the loop of _add_property_annotations: the AnnAssign statements
RECURSIVE AnnotationFields(_)
AnnotationFields(infos) ==
    IF infos = <<>> THEN [fields |-> <<>>, err |-> ""]
    ELSE LET info == Head(infos)
             fixed == is_primitive_const(info.node)
         IN IF fixed /\ info.node.type \notin CommonKeys
            THEN \* COMMON_AST_NODES[prop_info.node.type] raises
                 [fields |-> <<>>, err |-> "KeyError"]
            ELSE [AnnotationFields(Tail(infos)) EXCEPT
                     !.fields = <<[target |-> info.clean_name,
                                   annotation |-> IF fixed THEN Common(info.node.type)
                                                  ELSE info.type,
                                   value |-> IF fixed
                                             THEN <<Constant(info.node.const[1])>>
                                             ELSE <<>>]>> \o @]

\* _propMap: the clean names that differ from the original ones
PropMap(infos) ==
    LET renamed == SelectSeq(infos, LAMBDA i : i.clean_name # i.original_name)
    IN [i \in 1..Len(renamed) |->
           [key |-> renamed[i].clean_name, value |-> renamed[i].original_name]]

\* _add_property_annotations once the properties (p) and their statements (a) are known
Annotated(p, a) ==
    IF p.G.err # "" THEN [fields |-> <<>>, prop_map |-> <<>>, G |-> p.G]
    ELSE IF a.err # "" THEN [fields |-> <<>>, prop_map |-> <<>>,
                             G |-> [p.G EXCEPT !.err = a.err]]
    ELSE [fields |-> a.fields, prop_map |-> PropMap(p.infos), G |-> p.G]

AnnotationsOf(p) == Annotated(p, AnnotationFields(p.infos))

\* _add_property_annotations: [fields, prop_map, G]
_add_property_annotations(object_type, G) ==
    AnnotationsOf(_get_properties_info(object_type, G))

\* a slip: the properties are taken in the order of declaration
SortNot(infos) == infos

\* properties_info.sort(key=lambda x: x.required, reverse=True): a stable sort
SortRequiredFirst(infos) ==
    SelectSeq(infos, LAMBDA i : i.required) \o SelectSeq(infos, LAMBDA i : ~i.required)

\* defaults.insert(i, x) for the i the code computes (never beyond the end)
ListInsert(list, i, x) == SubSeq(list, 1, i) \o <<x>> \o SubSeq(list, i + 1, Len(list))

\* the test of the three loops that leave fixed properties out: not is_primitive_const
Emitted(info) == ~is_primitive_const(info.node)

\* the loop of _generate_init_method over the sorted properties:
\* acc = [required_args, optional_args, defaults]
RECURSIVE InitArgs(_, _)
InitArgs(infos, acc) ==
    IF infos = <<>> THEN acc
    ELSE LET prop_info == Head(infos)
             arg == [arg |-> prop_info.clean_name, annotation |-> <<prop_info.type>>]
         IN InitArgs(Tail(infos),
                     IF ~Emitted(prop_info) THEN acc
                     ELSE IF prop_info.required
                     THEN [acc EXCEPT !.required_args = Append(@, arg),
                                      !.defaults = Append(@, PyNone)]
                     ELSE [acc EXCEPT !.optional_args = Append(@, arg),
                                      !.defaults = Append(@, Common("None"))])

\* required_args, optional_args and defaults before the loop
InitArgsStart(is_asset) ==
    [required_args |-> <<[arg |-> s_self, annotation |-> <<>>]>>,
     optional_args |-> IF is_asset
                       THEN <<[arg |-> s_id,
                               annotation |-> <<Subscript(Common("Optional"),
                                                          Common("string"))>>]>>
                       ELSE <<>>,
     defaults |-> <<PyNone>>]

\* _create_super_call: the arguments of super().__init__(...)
_create_super_call(is_asset) ==
    IF is_asset THEN <<s_id, s_self \o <<".">> \o s_type>> ELSE <<>>

\* the FunctionDef of _generate_init_method, from the lists the loops built
InitDef(acc, assigned, is_asset) ==
    [args |-> acc.required_args \o acc.optional_args,
     defaults |-> ListInsert(acc.defaults, Len(acc.required_args), Common("None")),
     super_args |-> _create_super_call(is_asset),
     assigns |-> [i \in 1..Len(assigned) |-> assigned[i].clean_name]]

\* _generate_init_method after properties_info.sort
InitOfSorted(properties_info, is_asset) ==
    InitDef(InitArgs(properties_info, InitArgsStart(is_asset)),
            SelectSeq(properties_info, Emitted), is_asset)

InitOf(p, is_asset) ==
    [init |-> InitOfSorted(SortRequiredFirst(p.infos), is_asset), G |-> p.G]

\* _generate_init_method: [init, G]
_generate_init_method(object_type, is_asset, G) ==
    InitOf(_get_properties_info(object_type, G), is_asset)

_is_slot(node) ==
    IF is_ref_type(node) THEN StartsWith(node.ref, s_Asset)
    ELSE IF is_array_type(node) /\ is_ref_type(ElementType(node))
    THEN StartsWith(ElementType(node).ref, s_Asset)
    ELSE FALSE

\* ast.Return(value=COMMON_AST_NODES['self'])
ReturnSelf == [stmt |-> "return", value |-> "self"]
\* self._withSlot(name, <arg>, wrapInAssetWrapper, isArray)
WithSlotCall(name, arg, wrap, isArray) ==
    [stmt |-> "_withSlot", name |-> name, value |-> arg,
     wrapInAssetWrapper |-> wrap, isArray |-> isArray]

_generate_simple_with_method(method_name, prop_info) ==
    [name |-> method_name, arg |-> "value", annotation |-> prop_info.type,
     body |-> <<[stmt |-> "assign", attr |-> prop_info.clean_name, value |-> "value"],
                ReturnSelf>>]

_generate_asset_with_method(method_name, prop_info) ==
    LET is_array_of_assets == is_array_type(prop_info.node)
        is_asset_wrapper == IF is_ref_type(prop_info.node)
                            THEN StartsWith(prop_info.node.ref, s_AssetWrapper)
                            ELSE FALSE
    IN [name |-> method_name, arg |-> "value", annotation |-> prop_info.type,
        body |-> <<WithSlotCall(prop_info.clean_name, "value", is_asset_wrapper,
                                is_array_of_assets),
                   ReturnSelf>>]

_create_array_set_body(prop_info) ==
    <<WithSlotCall(prop_info.clean_name, "values", TRUE, TRUE), ReturnSelf>>

_create_array_append_body(prop_info) ==
    <<[stmt |-> "init_if_none", attr |-> prop_info.clean_name, value |-> "[]"],
      [stmt |-> "append", attr |-> prop_info.clean_name, value |-> "value"],
      ReturnSelf>>

\* the two FunctionDefs of _generate_array_with_methods, from the element annotation
ArrayMethods(method_name, prop_info, element_type) ==
    [methods |-> <<[name |-> method_name, arg |-> "values",
                    annotation |-> prop_info.type,
                    body |-> _create_array_set_body(prop_info)],
                   [name |-> ReplaceWithByAdd(method_name), arg |-> "value",
                    annotation |-> element_type.ast,
                    body |-> _create_array_append_body(prop_info)]>>,
     G |-> element_type.G]

\* a slip: a plain array gets the replace-whole-array mutator only
ArrayWithMethodsSetOnly(method_name, prop_info, G) ==
    [methods |-> <<[name |-> method_name, arg |-> "values",
                    annotation |-> prop_info.type,
                    body |-> _create_array_set_body(prop_info)]>>,
     G |-> G]

\* _generate_array_with_methods: [methods, G]
_generate_array_with_methods(method_name, prop_info, G) ==
    ArrayMethods(method_name, prop_info,
                 _convert_xlr_to_ast(ElementType(prop_info.node), prop_info.clean_name, G))

\* method_name = f"with{prop_info.clean_name.replace('_', '').title()}"
MethodName(prop_info) == s_with \o StrTitle(StrReplace(prop_info.clean_name, "_", <<>>))

\* the body of the loop of _generate_with_methods for a property that is not fixed
MethodsFor(method_name, prop_info, G) ==
    IF _is_slot(prop_info.node)
    THEN [methods |-> <<_generate_asset_with_method(method_name, prop_info)>>, G |-> G]
    ELSE IF is_array_type(prop_info.node)
    THEN _generate_array_with_methods(method_name, prop_info, G)
    ELSE [methods |-> <<_generate_simple_with_method(method_name, prop_info)>>, G |-> G]

\* methods.append / methods.extend
Extend(acc, r) == [methods |-> acc.methods \o r.methods, G |-> r.G]

\* the loop of _generate_with_methods
RECURSIVE WithMethods(_, _)
WithMethods(infos, acc) ==
    IF infos = <<>> THEN acc
    ELSE WithMethods(Tail(infos),
                     IF ~Emitted(Head(infos)) THEN acc
                     ELSE Extend(acc, MethodsFor(MethodName(Head(infos)), Head(infos),
                                                 acc.G)))

WithMethodsOf(p) ==
    IF p.G.err # "" THEN [methods |-> <<>>, G |-> p.G]
    ELSE WithMethods(p.infos, [methods |-> <<>>, G |-> p.G])

\* _generate_with_methods: [methods, G]
_generate_with_methods(object_type, G) ==
    WithMethodsOf(_get_properties_info(object_type, G))

\* the type override of _generate_main_class: the fields it puts before id
TypeOverride(object_type) ==
    LET extended_node == object_type.extends
    IN IF extended_node # None
          /\ is_ref_type(extended_node)
          /\ StartsWith(extended_node.ref, s_Asset)
          /\ Len(extended_node.genericArguments) = 1
       THEN LET asset_arg == extended_node.genericArguments[1]
            IN IF is_string_type(asset_arg) /\ Truthy(asset_arg.const)
               THEN <<[target |-> s_type, annotation |-> Name(s_str, FALSE),
                       value |-> <<Constant(asset_arg.const[1])>>]>>
               ELSE <<>>
       ELSE <<>>

ClassDef(name, base, fields, prop_map, init, methods) ==
    [k |-> "ClassDef", name |-> name, bases |-> <<base>>, fields |-> fields,
     prop_map |-> prop_map, init |-> init, methods |-> methods]

\* class_def.body.append(init_method); an exception before it leaves the class unbuilt
WithInit(a, i) ==
    [fields |-> a.fields, prop_map |-> a.prop_map, init |-> <<i.init>>, G |-> i.G]
AddInit(object_type, is_asset, a) ==
    IF a.G.err # "" THEN [fields |-> <<>>, prop_map |-> <<>>, init |-> <<>>, G |-> a.G]
    ELSE WithInit(a, _generate_init_method(object_type, is_asset, a.G))

\* class_def.body.extend(with_methods)
WithAll(b, m) ==
    [fields |-> b.fields, prop_map |-> b.prop_map, init |-> b.init,
     methods |-> m.methods, G |-> m.G]
AddMethods(object_type, b) ==
    IF b.G.err # "" THEN [fields |-> <<>>, prop_map |-> <<>>, init |-> <<>>,
                          methods |-> <<>>, G |-> b.G]
    ELSE WithAll(b, _generate_with_methods(object_type, b.G))

\* the three steps the two class builders share: annotations, __init__, with* methods
ClassBody(object_type, is_asset, G) ==
    AddMethods(object_type,
               AddInit(object_type, is_asset, _add_property_annotations(object_type, G)))

\* extends_name of _generate_main_class
\* the base named after the family whatever the properties
ExtendsNameByFamily(props, type) == StrTitle(type)
ExtendsName(props, type) ==
    IF \E i \in 1..Len(props) : props[i].key = s_validation
    THEN s_Asset ELSE StrTitle(type)

\* the ClassDef of _generate_main_class, from the body of the class
MainClassDef(class_name, object_type, type, b) ==
    [class |-> ClassDef(class_name, ExtendsName(Properties(object_type), type),
                        TypeOverride(AttrOwner(object_type, "extends"))
                            \o <<[target |-> s_id, annotation |-> Name(s_str, FALSE),
                                  value |-> <<>>]>>
                            \o b.fields,
                        b.prop_map, b.init, b.methods),
     G |-> b.G]

\* _generate_main_class: [class, G]
_generate_main_class(named_object_type, type, G) ==
    MainClassDef(named_object_type.name, named_object_type.base_node, type,
                 ClassBody(named_object_type.base_node, TRUE, G))

NestedClassDef(class_name, b) ==
    [class |-> ClassDef(class_name, s_Slotable, b.fields, b.prop_map, b.init, b.methods),
     G |-> b.G]

\* _generate_nested_class: [class, G]
_generate_nested_class(class_name, object_type, G) ==
    NestedClassDef(class_name, ClassBody(object_type, FALSE, G))

\* _add_imports: the import statements at the head of the module
_add_imports(type) ==
    <<[k |-> "ImportFrom", module |-> "typing",
       names |-> <<"Optional", "List", "Any", "Union", "Dict", "Literal">>],
      [k |-> "ImportFrom", module |-> "player_tools_dsl.view",
       names |-> <<"Asset", "Slotable">>]>>
    \o (IF StrTitle(type) = <<"V","i","e","w">>
        THEN <<[k |-> "ImportFrom", module |-> "player_tools_dsl.view",
                names |-> <<"View">>]>>
        ELSE <<>>)

\* ast.unparse of a signature: the defaults are laid over the last parameters (or, when
\* there are more defaults than parameters, over the parameters from the first one) and
\* a default that is the Python value None is not written
Signature(init) ==
    LET n == Len(init.args)
        d == Len(init.defaults)
        padded == [i \in 1..(IF n > d THEN n - d ELSE 0) |-> PyNone] \o init.defaults
    IN [i \in 1..n |->
           [arg |-> init.args[i].arg,
            annotation |-> init.args[i].annotation,
            default |-> IF padded[i] = PyNone THEN <<>> ELSE <<padded[i]>>]]

\* the keys of the shared nodes of COMMON_AST_NODES in a type annotation
RECURSIVE CommonIn(_)
RECURSIVE CommonInEach(_)
CommonInEach(asts) ==
    IF asts = <<>> THEN {} ELSE CommonIn(Head(asts)) \cup CommonInEach(Tail(asts))
CommonIn(a) ==
    CASE a.k = "Common" -> {a.key}
      [] a.k = "Subscript" -> CommonIn(a.value) \cup CommonIn(a.slice)
      [] a.k = "Tuple" -> CommonInEach(a.elts)
      [] OTHER -> {}
\* the shared nodes in a class: in the annotations of its fields, in its constructor
\* (annotations, defaults, super, self) and in its mutators (annotation, self)
CommonInClass(c) ==
    UNION {CommonIn(c.fields[i].annotation) : i \in 1..Len(c.fields)}
    \cup UNION {CommonInEach(c.init[i].defaults)
                 \cup UNION {CommonInEach(c.init[i].args[j].annotation) :
                                j \in 1..Len(c.init[i].args)}
                 \cup (IF c.init[i].super_args # <<>> THEN {"super"} ELSE {})
                 \cup (IF c.init[i].assigns # <<>> THEN {"self"} ELSE {}) :
                 i \in 1..Len(c.init)}
    \cup UNION {CommonIn(c.methods[i].annotation) \cup {"self"} : i \in 1..Len(c.methods)}
\* the loop of ast_to_source: every node of the module without lineno or col_offset gets
\* them, the shared nodes among them
CommonInModule(module) ==
    UNION {IF module[i].k = "ClassDef" THEN CommonInClass(module[i]) ELSE {} :
              i \in 1..Len(module)}

\* ast_to_source: the text of the module, statement by statement
ast_to_source(module) ==
    [i \in 1..Len(module) |->
        IF module[i].k = "ClassDef"
        THEN [module[i] EXCEPT
                 !.init = [j \in 1..Len(@) |->
                              [name |-> "__init__", signature |-> Signature(@[j]),
                               super_args |-> @[j].super_args,
                               assigns |-> @[j].assigns]]]
        ELSE module[i]]

(***************************************************************************)
(* The inputs of generate_python_classes                                   *)
(***************************************************************************)
\* how many properties an object type of the inputs has at most
MaxProps == 2
\* how many constituents an intersection of the inputs has at most
MaxAndTypes == 2

s_Top == <<"T","o","p">>
n_a == <<"a">>
n_b == <<"b">>
n_cd == <<"c","-","d">>
n_m == <<"m">>
n_p == <<"p">>
n_q == <<"q">>
n_x == <<"x">>
n_y == <<"y">>
n_T == <<"T">>
s_Bar == <<"B","a","r">>
s_Foo == <<"F","o","o">>

Prop(key, required, node) == [key |-> key, value |-> ObjectProperty(required, node)]
Obj(properties) == ObjectType(properties, None, <<>>, <<>>)
Ref(ref) == RefType(ref, <<>>, <<>>, <<>>)
Root(properties) == NamedType(Obj(properties), s_Top)

PropNames == {n_a, n_b, n_cd}
ObjX == Obj(<<Prop(n_x, TRUE, StringNode)>>)
ObjY == Obj(<<Prop(n_y, FALSE, NumberNode)>>)
\* a plain value, a fixed literal, a slot, a plain array, an anonymous object
BasicNodes == {StringNode, Prim("StringType", <<"c">>), Ref(s_Asset),
               ArrayType(NumberNode), ObjX}

\* the property lists of at most n properties with distinct names
RECURSIVE PropLists(_)
PropLists(n) ==
    IF n = 0 THEN {<<>>}
    ELSE LET shorter == PropLists(n - 1)
             longest == {p \in shorter : Len(p) = n - 1}
         IN shorter \cup
            {Append(p, Prop(k, r, nd)) :
                p \in longest,
                k \in PropNames,
                r \in BOOLEAN, nd \in BasicNodes}

DistinctKeys(props) == \A i, j \in 1..Len(props) : props[i].key = props[j].key => i = j

ShapeRoots == {Root(p) : p \in {q \in PropLists(MaxProps) : DistinctKeys(q)}}
\* the i-th constituent of an intersection declares its properties with its own node
NodeOf(i) == IF i = 1 THEN StringNode ELSE IF i = 2 THEN NumberNode ELSE BooleanNode

\* the object types a constituent can be: it declares p, q, both or neither
MergeObjs(i) ==
    {Obj(<<>>)} \cup
    {Obj(<<Prop(k, r, NodeOf(i))>>) : k \in {n_p, n_q}, r \in BOOLEAN} \cup
    {Obj(<<Prop(n_p, r1, NodeOf(i)), Prop(n_q, r2, NodeOf(i))>>) : r1, r2 \in BOOLEAN}

\* the lists of exactly n constituents
RECURSIVE AndLists(_)
AndLists(n) ==
    IF n = 0 THEN {<<>>}
    ELSE {Append(l, o) : l \in AndLists(n - 1), o \in MergeObjs(n)}

AndNodes ==
    {AndType(l, <<>>) : l \in UNION {AndLists(n) : n \in 2..MaxAndTypes}}

ObjP == Obj(<<Prop(n_p, TRUE, StringNode)>>)
ObjQ == Obj(<<Prop(n_p, FALSE, NumberNode), Prop(n_q, FALSE, NumberNode)>>)
ObjR == Obj(<<Prop(n_q, TRUE, BooleanNode)>>)

\* one node of every other kind the type mapping tells apart
SpecialNodes ==
    {Prim(c, k) : c \in PrimitiveClasses, k \in {<<>>, <<"c">>}} \cup
    { Ref(s_AssetWrapper), Ref(s_Expression), Ref(s_Binding), Ref(s_Foo), Ref(n_T),
      ArrayType(Ref(s_AssetWrapper)), ArrayType(Ref(s_Asset)), ArrayType(ObjX),
      ArrayType(Prim("StringType", <<"c">>)),
      RecordType(StringNode, ObjX),
      OrType(<<StringNode, NumberNode>>),
      OrType(<<Prim("StringType", <<"c">>), Prim("StringType", <<"d">>)>>),
      OrType(<<ObjX, ObjY>>),
      OrType(<<NamedType(ObjX, s_Foo), NamedType(ObjY, s_Foo)>>),
      NamedType(ObjX, s_Foo), NamedType(ObjX, s_Top),
      ObjectType(<<Prop(n_x, TRUE, StringNode)>>, None, <<>>, s_Foo),
      Obj(<<Prop(n_a, TRUE, ObjX), Prop(n_m, FALSE, AndType(<<ObjP, ObjQ>>, <<>>))>>),
      AndType(<<>>, <<>>), AndType(<<StringNode>>, <<>>),
      AndType(<<StringNode, NumberNode>>, <<>>),
      AndType(<<ObjP, StringNode>>, <<>>),
      AndType(<<ObjP, ObjQ>>, s_Foo),
      AndType(<<ObjP, ObjQ>>, n_m),
      AndType(<<NamedType(ObjP, s_Foo), ObjQ>>, <<>>),
      AndType(<<ObjP, AndType(<<ObjQ, ObjR>>, <<>>)>>, <<>>),
      AndType(<<AndType(<<ObjR, ObjQ>>, <<>>), ObjP>>, <<>>),
      AndType(<<ObjP, OrType(<<ObjQ, ObjR>>)>>, <<>>),
      AndType(<<OrType(<<ObjP, ObjQ>>), OrType(<<ObjQ, ObjR>>)>>, <<>>),
      AndType(<<OrType(<<ObjP, ObjQ>>), OrType(<<ObjQ, ObjR>>), OrType(<<ObjX, ObjY>>)>>,
              <<>>),
      TupleType(<<>>, 0), FunctionType(<<>>, StringNode),
      ConditionalType(StringNode, BooleanNode), TemplateLiteralType("t_${string}") }

SpecialRoots ==
    {Root(<<Prop(n_m, r, nd)>>) : r \in BOOLEAN, nd \in SpecialNodes \cup AndNodes}

\* two properties whose object types yield one name; a generic top-level type
CuratedRoots ==
    { Root(<<Prop(n_a, TRUE, ObjX), Prop(n_b, TRUE, ObjectType(<<>>, None, <<>>, <<"A">>))>>),
      Root(<<Prop(n_a, TRUE, NamedType(ObjX, s_Foo)),
             Prop(n_b, FALSE, NamedType(ObjY, s_Foo))>>),
      Root(<<Prop(n_m, TRUE, ObjX),
             Prop(n_b, TRUE, AndType(<<ObjP, ObjQ>>, <<"M">>))>>),
      Root(<<Prop(n_a, TRUE, AndType(<<ObjP, ObjQ>>, s_Foo)),
             Prop(n_b, TRUE, AndType(<<ObjQ, ObjR>>, s_Foo))>>),
      Root(<<Prop(n_a, FALSE, AndType(<<ObjP, ObjQ>>, <<>>)),
             Prop(n_b, TRUE, ArrayType(AndType(<<ObjQ, ObjR>>, <<>>))),
             Prop(s_validation, FALSE, StringNode)>>),
      Root(<<Prop(n_a, TRUE, AndType(<<ObjP, ObjQ>>, s_Foo)),
             Prop(n_b, TRUE,
                  AndType(<<Obj(<<Prop(n_x, TRUE, AndType(<<ObjP, ObjQ>>, s_Foo))>>),
                            ObjR>>, s_Bar))>>),
      NamedType(ObjectType(<<Prop(n_a, TRUE, Ref(s_Expression))>>,
                           RefType(s_Asset, <<Prim("StringType", <<"action">>)>>,
                                   <<>>, <<>>),
                           <<>>, <<>>), s_Top),
      NamedTypeWithGenerics(
          Obj(<<Prop(n_a, TRUE, RefType(n_T, <<>>, <<"t","a">>, <<>>)),
                Prop(n_b, FALSE, RefType(n_T, <<>>, <<"t","b">>, <<>>))>>),
          s_Top, <<ParamTypeNode(n_T, None, StringNode)>>),
      NamedTypeWithGenerics(
          Obj(<<Prop(n_a, TRUE, Ref(n_T))>>),
          s_Top, <<ParamTypeNode(n_T, None, ObjX)>>),
      NamedTypeWithGenerics(
          Obj(<<Prop(n_a, TRUE, Ref(n_T))>>),
          s_Top, <<ParamTypeNode(n_T, None, NamedType(ObjX, s_Foo))>>),
      NamedTypeWithGenerics(
          Obj(<<Prop(n_a, TRUE, Ref(n_T))>>),
          s_Top, <<ParamTypeNode(n_T, StringNode, None)>>) }

\* values generate_python_classes must refuse
InvalidRoots ==
    { None, [cls |-> "str", repr |-> "not a type"],
      ObjX, Obj(<<>>), StringNode, ArrayType(ObjX),
      NamedType(StringNode, s_Top), NamedType(ArrayType(ObjX), s_Top),
      NamedType(OrType(<<ObjX, ObjY>>), s_Top), NamedType(Ref(s_Asset), s_Top),
      NamedType(None, s_Top),
      NamedTypeWithGenerics(StringNode, s_Top, <<>>),
      NamedTypeWithGenerics(AndType(<<ObjP, ObjQ>>, <<>>), s_Top,
                            <<ParamTypeNode(n_T, None, ObjX)>>) }

ValidRoots == ShapeRoots \cup SpecialRoots \cup CuratedRoots
Roots == ValidRoots \cup InvalidRoots
Families == {s_asset, s_view}
(***************************************************************************)
(* Specification Spec: one call of generate_python_classes                 *)
(***************************************************************************)
\* a slip: one file name for every type
FileNameOfTop(name) == s_Top \o <<".">> \o s_py
FileName(name) == name \o <<".">> \o s_py

\* a file an earlier run left in the output directory
StaleFile == [name |-> FileName(s_Top), content |-> <<>>]

Init ==
    /\ GenIdle
    /\ GuardsIdle
    /\ DesIdle
    /\ BatchIdle
    /\ OthersIdle
    /\ \/ dir_exists = FALSE /\ files = {}
       \/ dir_exists = TRUE /\ files = {StaleFile}

\* the bookkeeping of the ClassGenerator as the record its methods thread
Self == [classes |-> classes, ctg |-> classes_to_generate, tokens |-> generic_tokens,
         err |-> ""]

\* self.classes, self.classes_to_generate, self.generic_tokens after a method; when it
\* raised, the call of generate_python_classes ends with that exception
Store(G, next_pc) ==
    /\ classes' = G.classes
    /\ classes_to_generate' = G.ctg
    /\ generic_tokens' = G.tokens
    /\ error' = G.err
    /\ pc' = IF G.err # "" THEN "failed" ELSE next_pc

\* a slip: the node the root wraps is not looked at
RootRejectedUnlessNamed(root) == ~is_named_type(root)

\* the test of generate_python_classes that raises ValueError
RootRejected(root) == ~is_named_type(root) \/ ~is_object_type(root.base_node)

\* generate_python_classes up to the call of generate(): the check of the root, then
\* ClassGenerator.__init__ (which makes the output directory and discovers the classes)
CallOf(root, type) ==
    /\ pc = "idle"
    /\ input' = [root |-> root, type |-> type]
    /\ IF RootRejected(root)
       THEN /\ error' = "ValueError"
            /\ pc' = "failed"
            /\ UNCHANGED <<built, classes, classes_to_generate, generic_tokens,
                           dir_exists>>
       ELSE /\ built' = TRUE
            /\ dir_exists' = TRUE
            /\ Store(ClassGeneratorInit(root), "generate")
    /\ UNCHANGED <<loop_i, module_body, main_class, files, located, guardVars>>

\* one call of generate_python_classes, with any root and family
Call ==
    \E root \in Roots, type \in Families :
        CallOf(root, type) /\ UNCHANGED restVars

\* main_class = self._generate_main_class(), r being what the method gave
MainClassBuilt(r) ==
    /\ main_class' = IF r.G.err # "" THEN <<>> ELSE <<r.class>>
    /\ Store(r.G, "loop")

\* generate(): the imports and the main class
GenerateMainClass ==
    /\ pc = "generate"
    /\ module_body' = _add_imports(input.type)
    /\ loop_i' = 1
    /\ MainClassBuilt(_generate_main_class(input.root, input.type, Self))
    /\ UNCHANGED <<input, built, dir_exists, files, located, guardVars, restVars>>

\* a slip: the nested class is put at the end of the module
InsertAtEnd(body, base_length, nested_class) == Append(body, nested_class)

\* module.body.insert(base_length, nested_class)
InsertAt(body, base_length, nested_class) ==
    SubSeq(body, 1, base_length) \o <<nested_class>>
        \o SubSeq(body, base_length + 1, Len(body))

\* nested_class = self._generate_nested_class(...), r being what the method gave
NestedClassBuilt(r, base_length) ==
    /\ module_body' = IF r.G.err # "" THEN module_body
                      ELSE InsertAt(module_body, base_length, r.class)
    /\ Store(r.G, "loop")

\* one pass of the loop of generate() over self.classes
GenerateNestedClass ==
    /\ pc = "loop"
    /\ loop_i <= Len(classes)
    /\ IF DictHas(classes_to_generate, classes[loop_i])
       THEN NestedClassBuilt(
                _generate_nested_class(classes[loop_i],
                                       DictGet(classes_to_generate, classes[loop_i]),
                                       Self),
                Len(_add_imports(input.type)))
       ELSE UNCHANGED <<module_body, classes, classes_to_generate,
                        generic_tokens, error, pc>>
    /\ loop_i' = loop_i + 1
    /\ UNCHANGED <<input, built, main_class, dir_exists, files, located, guardVars,
                   restVars>>

\* the end of generate(): the main class goes last and the file is written
WriteFile ==
    /\ pc = "loop"
    /\ loop_i > Len(classes)
    /\ module_body' = Append(module_body, main_class[1])
    /\ files' = {f \in files : f.name # FileName(input.root.name)} \cup
                {[name |-> FileName(input.root.name),
                  content |-> ast_to_source(module_body')]}
    /\ located' = located \cup CommonInModule(module_body')
    /\ pc' = "done"
    /\ UNCHANGED <<input, built, classes, classes_to_generate, generic_tokens, loop_i,
                   main_class, dir_exists, error, guardVars, restVars>>

Next == Call \/ GenerateMainClass \/ GenerateNestedClass \/ WriteFile

Spec == Init /\ [][Next]_vars

(***************************************************************************)
(* Claims about the generator                                              *)
(***************************************************************************)
\* a NamedType or NamedTypeWithGenerics whose wrapped node is an ObjectType
WrapsObject(v) ==
    /\ v.cls \in {"NamedType", "NamedTypeWithGenerics"}
    /\ v.base_node.cls = "ObjectType"

NoDuplicates(seq) == \A i, j \in 1..Len(seq) : seq[i] = seq[j] => i = j
Reverse(seq) == [i \in 1..Len(seq) |-> seq[Len(seq) + 1 - i]]
Keys(d) == [i \in 1..Len(d) |-> d[i].key]

\* the class definitions of the file the call wrote, in the order of the file
Emitted_file == CHOOSE f \in files : f.name = FileName(input.root.name)
EmittedClasses == SelectSeq(Emitted_file.content, LAMBDA st : st.k = "ClassDef")
\* the object type an emitted class was generated from
TypeOfClass(c) ==
    IF c.name = input.root.name THEN input.root.base_node
    ELSE DictGet(classes_to_generate, c.name)

\* C1: a root that is no NamedType / NamedTypeWithGenerics around an ObjectType makes
\* the call end with ValueError, no ClassGenerator is built, and the output directory
\* and its files are as they were before the call.
C1_InvalidRootFailsFast ==
    [][(pc = "idle" /\ pc' # "idle" /\ ~WrapsObject(input'.root))
       => /\ pc' = "failed"
          /\ error' = "ValueError"
          /\ built' = FALSE
          /\ classes' = <<>> /\ classes_to_generate' = <<>>
          /\ files' = files
          /\ dir_exists' = dir_exists]_vars

C1_Witness ==
    /\ pc = "failed" /\ error = "ValueError" /\ ~built
    /\ input.root = NamedType(StringNode, s_Top)
    /\ files = {StaleFile}

\* the named object types and the anonymous ones below a node, in the order discovery
\* meets them, each with the name it yields
RECURSIVE Yields(_, _)
RECURSIVE YieldsOfAll(_, _)
RECURSIVE YieldsOfProperties(_)
Yields(node, parent_prop) ==
    IF node.cls \in {"NamedType", "NamedTypeWithGenerics"} /\ node.base_node.cls = "ObjectType"
    THEN <<[name |-> node.name, node |-> node]>> \o YieldsOfProperties(node.base_node.properties)
    ELSE IF node.cls = "ObjectType"
    THEN <<[name |-> DiscoveredName(node, parent_prop), node |-> node]>>
             \o YieldsOfProperties(node.properties)
    ELSE IF node.cls = "ArrayType" THEN Yields(node.elementType, parent_prop)
    ELSE IF node.cls = "OrType" THEN YieldsOfAll(node.or_types, parent_prop)
    ELSE IF node.cls = "AndType" THEN YieldsOfAll(node.and_types, parent_prop)
    ELSE <<>>
YieldsOfAll(nodes, parent_prop) ==
    IF nodes = <<>> THEN <<>>
    ELSE Yields(Head(nodes), parent_prop) \o YieldsOfAll(Tail(nodes), parent_prop)
YieldsOfProperties(props) ==
    IF props = <<>> THEN <<>>
    ELSE Yields(Head(props).value.node, Head(props).key) \o YieldsOfProperties(Tail(props))

\* of the object types that yield one name, the one discovery met first is the one kept
FirstKept(root, ctg) ==
    LET ys == YieldsOfProperties(root.base_node.properties)
    IN \A j \in 1..Len(ys) :
          (ys[j].name # root.name /\ \A i \in 1..(j - 1) : ys[i].name # ys[j].name)
          => DictHas(ctg, ys[j].name) /\ DictGet(ctg, ys[j].name) = ys[j].node

\* C2: the class-name list never holds a name twice and the map holds one object type
\* per name; a name once scheduled keeps its object type (a later object type that
\* yields the name is not scheduled), in discovery and in the merge steps after it.
C2_NamingDedup ==
    [][/\ NoDuplicates(classes')
       /\ NoDuplicates(Keys(classes_to_generate'))
       /\ \A i \in 1..Len(classes_to_generate) :
             /\ i <= Len(classes_to_generate')
             /\ classes_to_generate'[i] = classes_to_generate[i]
       /\ (built' /\ input'.root.cls = "NamedType")
             => FirstKept(input'.root, classes_to_generate')]_vars

C2_Witness ==
    /\ pc = "done"
    /\ LET ys == YieldsOfProperties(input.root.base_node.properties)
       IN \E i, j \in 1..Len(ys) :
             /\ i < j /\ ys[i].name = ys[j].name /\ ys[i].node # ys[j].node
             /\ DictGet(classes_to_generate, ys[i].name) = ys[i].node
    /\ \E i \in 1..Len(input.root.base_node.properties) :
          LET node == input.root.base_node.properties[i].value.node
          IN node.cls = "AndType" /\ InSeq(node.name, classes)
             /\ DictGet(classes_to_generate, node.name).cls = "ObjectType"
             /\ DictGet(classes_to_generate, node.name).properties[1].key = n_x

\* the nested classes of the class-name list, in the order they were appended
NestedInAppendOrder ==
    SelectSeq(classes, LAMBDA n : DictHas(classes_to_generate, n))
EmittedNames == [i \in 1..Len(EmittedClasses) |-> EmittedClasses[i].name]

\* C3 as stated: in the emitted module the nested classes come before the top-level
\* class, in the order in which their names were appended to the class-name list.
C3_NestedInDiscoveryOrder ==
    pc = "done" => EmittedNames = NestedInAppendOrder \o <<input.root.name>>

\* C3, amended: the nested classes come before the top-level class, in the reverse of
\* the order in which their names were appended to the class-name list.
C3_NestedInReverseOrder ==
    pc = "done" => EmittedNames = Reverse(NestedInAppendOrder) \o <<input.root.name>>

C3_Witness ==
    /\ pc = "done"
    /\ Len(NestedInAppendOrder) >= 3
    /\ EmittedNames[1] = NestedInAppendOrder[Len(NestedInAppendOrder)]
    /\ EmittedNames[1] # NestedInAppendOrder[1]

\* the constituents of an intersection with the nested intersections flattened
RECURSIVE Constituents(_)
Constituents(and_types) ==
    IF and_types = <<>> THEN <<>>
    ELSE (IF Head(and_types).cls = "AndType" THEN Constituents(Head(and_types).and_types)
          ELSE <<Head(and_types)>>) \o Constituents(Tail(and_types))

\* the properties of an object-shaped constituent: its own, or those of the node it names
PropsOf(c) == IF c.cls = "ObjectType" THEN c.properties ELSE c.base_node.properties
ObjectShaped(c) == c.cls = "ObjectType" \/ WrapsObject(c)
Declares(c, key) == \E i \in 1..Len(PropsOf(c)) : PropsOf(c)[i].key = key

\* what C4 says of the merged object type of the constituents cs
MergedAsClaimed(merged, cs) ==
    /\ {merged.properties[i].key : i \in 1..Len(merged.properties)}
          = UNION {{PropsOf(cs[k])[i].key : i \in 1..Len(PropsOf(cs[k]))} : k \in 1..Len(cs)}
    /\ NoDuplicates(Keys(merged.properties))
    /\ \A i \in 1..Len(merged.properties) :
          LET key == merged.properties[i].key
              last == CHOOSE k \in 1..Len(cs) :
                          Declares(cs[k], key)
                          /\ \A l \in (k + 1)..Len(cs) : ~Declares(cs[l], key)
          IN /\ merged.properties[i].value.node = DictGet(PropsOf(cs[last]), key).node
             /\ merged.properties[i].value.required
                   = (\E k \in 1..Len(cs) :
                         Declares(cs[k], key) /\ DictGet(PropsOf(cs[k]), key).required)

\* the intersections among the properties of the root whose merged class is scheduled
\* under a name nothing else claimed before: [name, cs]
MergesOfRoot ==
    LET props == input.root.base_node.properties
        Merge(i) == LET node == props[i].value.node
                    IN [name |-> IF node.name # <<>> THEN node.name
                                 ELSE _generate_merged_class_name(
                                          props[i].key, Constituents(node.and_types)),
                        cs |-> Constituents(node.and_types)]
        IsMerge(i) == /\ props[i].value.node.cls = "AndType"
                      /\ \A k \in 1..Len(Merge(i).cs) : ObjectShaped(Merge(i).cs[k])
        ys == YieldsOfProperties(props)
    IN {Merge(i) : i \in {j \in 1..Len(props) :
                            /\ IsMerge(j)
                            /\ Merge(j).name # input.root.name
                            /\ \A y \in 1..Len(ys) : ys[y].name # Merge(j).name
                            /\ \A h \in 1..(j - 1) :
                                  IsMerge(h) => Merge(h).name # Merge(j).name}}

\* C4: an intersection whose constituents (nested intersections flattened) are all
\* object-shaped gives a merged object type with exactly the union of the property
\* names; a property declared by several constituents has the node of the last
\* constituent that declares it and is required when any of them requires it.
C4_IntersectionMerge ==
    (pc \in {"loop", "done"} /\ input.root.cls = "NamedType")
    => \A m \in MergesOfRoot :
          /\ DictHas(classes_to_generate, m.name)
          /\ MergedAsClaimed(DictGet(classes_to_generate, m.name), m.cs)

C4_Witness ==
    /\ pc = "done" /\ input.root.cls = "NamedType"
    /\ \E m \in MergesOfRoot :
          /\ Len(m.cs) >= 2
          /\ Declares(m.cs[1], n_p) /\ DictGet(PropsOf(m.cs[1]), n_p).required
          /\ Declares(m.cs[2], n_p) /\ ~DictGet(PropsOf(m.cs[2]), n_p).required
          /\ DictGet(DictGet(classes_to_generate, m.name).properties, n_p)
                = ObjectProperty(TRUE, NumberNode)

\* the node a property is generated from: the default of the generic token it names,
\* else its own node
Resolved(node) ==
    IF node.cls = "RefType" /\ DictHas(generic_tokens, node.ref)
    THEN DictGet(generic_tokens, node.ref).default
    ELSE node
\* a primitive with a const that is not None
Fixed(node) == node.cls \in PrimitiveClasses /\ node.const # <<>>
FixedProperty(prop) == Fixed(Resolved(prop.value.node))

RECURSIVE HasFixed(_)
HasFixed(object_type) ==
    \E i \in 1..Len(object_type.properties) :
        LET node == object_type.properties[i].value.node
        IN Fixed(node) \/ (node.cls = "ObjectType" /\ HasFixed(node))

SignatureOf(c) == c.init[1].signature
MutatorsOn(c, attr) ==
    SelectSeq(c.methods, LAMBDA m : \E i \in 1..Len(m.body) :
                                       /\ m.body[i].stmt # "return"
                                       /\ (IF m.body[i].stmt = "_withSlot"
                                           THEN m.body[i].name ELSE m.body[i].attr) = attr)

\* C5: in every emitted class a property whose node is a primitive with a const is no
\* constructor parameter, is not assigned in the constructor, has no with*/add*
\* mutator and is a class field whose value is the const; and this holds for each of
\* the 9 primitive variants: generation does not fail on such a property.
C5_FixedLiteralExclusion ==
    /\ pc = "done" =>
          \A ci \in 1..Len(EmittedClasses) :
             LET c == EmittedClasses[ci]
                 props == PropsOf(TypeOfClass(c))
             IN \A i \in 1..Len(props) :
                   FixedProperty(props[i]) =>
                      LET attr == clean_property_name(props[i].key)
                      IN /\ \A a \in 1..Len(SignatureOf(c)) : SignatureOf(c)[a].arg # attr
                         /\ ~InSeq(attr, c.init[1].assigns)
                         /\ MutatorsOn(c, attr) = <<>>
                         /\ \E f \in 1..Len(c.fields) :
                               /\ c.fields[f].target = attr
                               /\ c.fields[f].value
                                     = <<Constant(Resolved(props[i].value.node).const[1])>>
    /\ (built /\ HasFixed(input.root.base_node)) => pc # "failed"

\* the fixed-literal rule at work for a string literal
C5_Witness ==
    /\ pc = "done"
    /\ \E ci \in 1..Len(EmittedClasses) :
          LET c == EmittedClasses[ci]
              props == PropsOf(TypeOfClass(c))
          IN \E i \in 1..Len(props) :
                /\ FixedProperty(props[i])
                /\ \E f \in 1..Len(c.fields) :
                      /\ c.fields[f].target = clean_property_name(props[i].key)
                      /\ c.fields[f].value = <<Constant("c")>>

\* the clean names of the properties of a class that are not fixed, in declaration order
NonFixed(c, required) ==
    LET kept == SelectSeq(PropsOf(TypeOfClass(c)),
                          LAMBDA p : ~FixedProperty(p) /\ p.value.required = required)
    IN [i \in 1..Len(kept) |-> clean_property_name(kept[i].key)]

IsTopLevel(c) == c.name = input.root.name

\* C6: every emitted constructor takes the required non-fixed properties before the
\* optional ones, each group in declaration order; id is a parameter of the top-level
\* class only; every optional parameter and id has the default None and no required
\* parameter has a default.
C6_ConstructorSignature ==
    pc = "done" =>
       \A ci \in 1..Len(EmittedClasses) :
          LET c == EmittedClasses[ci]
              sig == SignatureOf(c)
              params == SelectSeq(sig, LAMBDA a : a.arg \notin {s_self, s_id})
              required == NonFixed(c, TRUE)
              optional == NonFixed(c, FALSE)
          IN /\ [i \in 1..Len(params) |-> params[i].arg] = required \o optional
             /\ (\E a \in 1..Len(sig) : sig[a].arg = s_id) <=> IsTopLevel(c)
             /\ \A a \in 1..Len(sig) :
                   IF sig[a].arg = s_id \/ InSeq(sig[a].arg, optional)
                   THEN sig[a].default = <<Common("None")>>
                   ELSE sig[a].default = <<>>

C6_Witness ==
    /\ pc = "done"
    /\ \E ci \in 1..Len(EmittedClasses) :
          LET c == EmittedClasses[ci]
              props == PropsOf(TypeOfClass(c))
          IN /\ IsTopLevel(c)
             /\ Len(props) = 2
             /\ ~props[1].value.required /\ ~FixedProperty(props[1])
             /\ props[2].value.required /\ ~FixedProperty(props[2])
             /\ [i \in 1..Len(SignatureOf(c)) |-> SignatureOf(c)[i].arg]
                   = <<s_self, clean_property_name(props[2].key), s_id,
                       clean_property_name(props[1].key)>>

\* a reference to an asset type (Asset, AssetWrapper, ...)
AssetRef(node) == node.cls = "RefType" /\ StartsWith(node.ref, s_Asset)
ReturnsSelf(m) == m.body[Len(m.body)] = [stmt |-> "return", value |-> "self"]
RegistersSlot(m, attr) ==
    /\ StartsWith(m.name, s_with) /\ ReturnsSelf(m) /\ Len(m.body) = 2
    /\ m.body[1].stmt = "_withSlot" /\ m.body[1].name = attr
ReplacesArray(m, attr) == RegistersSlot(m, attr) /\ m.body[1].isArray
AppendsOne(m, attr) ==
    /\ StartsWith(m.name, <<"a","d","d">>) /\ ReturnsSelf(m)
    /\ \E i \in 1..Len(m.body) : m.body[i] = [stmt |-> "append", attr |-> attr,
                                              value |-> "value"]
Assigns(m, attr) ==
    /\ StartsWith(m.name, s_with) /\ ReturnsSelf(m) /\ Len(m.body) = 2
    /\ m.body[1] = [stmt |-> "assign", attr |-> attr, value |-> "value"]

\* the mutators of a class, taken property by property in declaration order
RECURSIVE MutatorsAsClaimed(_, _)
MutatorsAsClaimed(props, methods) ==
    IF props = <<>> THEN methods = <<>>
    ELSE LET node == Resolved(Head(props).value.node)
             attr == clean_property_name(Head(props).key)
         IN IF Fixed(node) THEN MutatorsAsClaimed(Tail(props), methods)
            ELSE IF AssetRef(node) \/ (node.cls = "ArrayType" /\ AssetRef(node.elementType))
            THEN /\ Len(methods) >= 1
                 /\ RegistersSlot(methods[1], attr)
                 /\ MutatorsAsClaimed(Tail(props), Tail(methods))
            ELSE IF node.cls = "ArrayType"
            THEN /\ Len(methods) >= 2
                 /\ ReplacesArray(methods[1], attr)
                 /\ AppendsOne(methods[2], attr)
                 /\ MutatorsAsClaimed(Tail(props), Tail(Tail(methods)))
            ELSE /\ Len(methods) >= 1
                 /\ Assigns(methods[1], attr)
                 /\ MutatorsAsClaimed(Tail(props), Tail(methods))

\* C7: every non-fixed property of an emitted class has exactly one with* mutator and
\* it returns the receiver; for a reference to an asset(-wrapper) type, or an array of
\* such references, that mutator registers a slot; a plain array has the mutator that
\* replaces the whole array and one more that appends one element.
C7_Mutators ==
    pc = "done" =>
       \A ci \in 1..Len(EmittedClasses) :
          MutatorsAsClaimed(PropsOf(TypeOfClass(EmittedClasses[ci])),
                            EmittedClasses[ci].methods)

C7_Witness ==
    /\ pc = "done"
    /\ \E ci \in 1..Len(EmittedClasses) :
          LET c == EmittedClasses[ci]
              props == PropsOf(TypeOfClass(c))
          IN /\ Len(props) = 2 /\ Len(c.methods) = 3
             /\ props[1].value.node = ArrayType(NumberNode)
             /\ props[2].value.node = Ref(s_Asset)
             /\ ReplacesArray(c.methods[1], clean_property_name(props[1].key))
             /\ AppendsOne(c.methods[2], clean_property_name(props[1].key))
             /\ RegistersSlot(c.methods[3], clean_property_name(props[2].key))

(***************************************************************************)
(* The deserializer (xlr/types/python/src/deserializer.py).                *)
(* A JSON value is a record with a field cls, as json.loads gives it:      *)
(* str, bool, int (the value written as a string in v), NoneType, list     *)
(* (items) and dict (items: the [key, value] pairs in document order).     *)
(* A node the deserializer builds is the record of its class and of every  *)
(* attribute its constructor sets, the defaults included.                  *)
(***************************************************************************)
JStr(v)  == [cls |-> "str", v |-> v]
JBool(v) == [cls |-> "bool", v |-> IF v THEN "true" ELSE "false"]
JInt(v)  == [cls |-> "int", v |-> ToString(v)]
JDict(items) == [cls |-> "dict", items |-> items]
Item(key, value) == [key |-> key, value |-> value]

\* raise ValueError(f"Failed to deserialize node of type '{node_type}': {e}")
Failed(node_type, e) ==
    [cls |-> "raise", exc |-> "ValueError", node_type |-> node_type, e |-> e]
IsRaise(v) == v.cls = "raise"

\* key in obj, obj.get(key) and obj.get(key, default) of a dict
Has(obj, key) == DictHas(obj.items, key)
Get(obj, key, default) == IF Has(obj, key) THEN DictGet(obj.items, key) ELSE default

\* the keyword parameters of Annotations.__init__, of Const and of Enum
AnnotationKeys == {"name", "title", "description", "examples", "default", "see",
                   "comment", "meta"}
CommonInfoKeys == {"const", "enum"}

\* the attributes the constructor of a class sets besides type
Fields(cls) ==
    CASE cls \in PrimitiveClasses -> CommonInfoKeys \cup AnnotationKeys
      [] cls = "RefType" -> {"ref", "genericArguments", "property"} \cup AnnotationKeys
      [] cls = "ObjectType" -> {"properties", "extends", "additionalProperties"}
                                   \cup CommonInfoKeys \cup AnnotationKeys
      [] cls = "ArrayType" -> {"elementType"} \cup CommonInfoKeys \cup AnnotationKeys
      [] cls = "TupleType" -> {"elementTypes", "minItems", "additionalItems"}
                                  \cup CommonInfoKeys \cup AnnotationKeys
      [] cls = "AndType" -> {"and_types"} \cup AnnotationKeys
      [] cls = "OrType" -> {"or_types"} \cup AnnotationKeys
      [] cls = "TemplateLiteralType" -> {"format"} \cup AnnotationKeys
      [] cls = "RecordType" -> {"keyType", "valueType"} \cup AnnotationKeys
      [] cls = "FunctionType" -> {"parameters", "returnType"} \cup AnnotationKeys
      [] cls = "ConditionalType" -> {"check", "value"} \cup AnnotationKeys
      [] cls = "ObjectProperty" -> {"required", "node"}
      [] cls = "FunctionTypeParameters" -> {"name", "type", "optional", "default"}
      [] cls = "TupleMember" -> {"type", "name", "optional"}
      [] cls = "ParamTypeNode" -> {"symbol", "constraints", "default"}
      [] cls = "NamedType" -> {"base_node", "name", "source"} \cup AnnotationKeys
      [] cls = "NamedTypeWithGenerics" ->
             {"base_node", "name", "source", "genericTokens"} \cup AnnotationKeys

\* the default of a keyword parameter: False for the two flags, None for the others
DefaultOf(field) ==
    IF field \in {"additionalProperties", "additionalItems"} THEN JBool(FALSE) ELSE None

\* cls(**kwargs): the object with every attribute set from kwargs or from the default;
\* a TypeNode has its type tag besides
Construct(cls, kwargs) ==
    [a \in {"cls"} \cup (IF TypeTag(cls) # "" THEN {"type"} ELSE {}) \cup Fields(cls) |->
        IF a = "cls" THEN cls
        ELSE IF a = "type" /\ TypeTag(cls) # "" THEN JStr(TypeTag(cls))
        ELSE IF DictHas(kwargs, a) THEN DictGet(kwargs, a)
        ELSE DefaultOf(a)]

\* {k: v for k, v in obj.items() if k in keys}
Extract(obj, keys) == SelectSeq(obj.items, LAMBDA it : it.key \in keys)
_extract_annotation_props(obj) == Extract(obj, AnnotationKeys)
_extract_common_props(obj) == Extract(obj, AnnotationKeys \cup CommonInfoKeys)

\* the type_map of _deserialize_by_type: discriminant -> class built
TypeMap ==
    [any |-> "AnyType", unknown |-> "UnknownType", undefined |-> "UndefinedType",
     null |-> "NullType", void |-> "VoidType", string |-> "StringType",
     number |-> "NumberType", boolean |-> "BooleanType", never |-> "NeverType",
     ref |-> "RefType", object |-> "ObjectType", array |-> "ArrayType",
     tuple |-> "TupleType", and |-> "AndType", or |-> "OrType",
     template |-> "TemplateLiteralType", record |-> "RecordType",
     function |-> "FunctionType", conditional |-> "ConditionalType"]

\* the keys a variant's deserializer reads with obj[key] (KeyError when absent),
\* in the order it reads them
SubscriptedKeys(node_type) ==
    CASE node_type = "ref" -> <<"ref">>
      [] node_type = "array" -> <<"elementType">>
      [] node_type = "tuple" -> <<"elementTypes", "minItems">>
      [] node_type = "template" -> <<"format">>
      [] node_type = "record" -> <<"keyType", "valueType">>
      [] node_type = "conditional" -> <<"check", "value">>
      [] OTHER -> <<>>

\* no key copied when present
CopiedKeysNone(node_type) == {}
\* the keys a variant's deserializer copies when present (if key in obj)
CopiedKeys(node_type) ==
    CASE node_type = "ref" -> {"genericArguments", "property"}
      [] node_type = "object" -> {"extends", "additionalProperties"}
      [] node_type = "tuple" -> {"additionalItems"}
      [] node_type = "function" -> {"returnType"}
      [] OTHER -> {}

\* the keyword arguments a variant's deserializer reads with obj.get(key, default)
DefaultedArgs(node_type, obj) ==
    CASE node_type = "object" ->
             <<Item("properties", Get(obj, "properties", JDict(<<>>)))>>
      [] node_type = "and" ->
             <<Item("and_types", Get(obj, "and", Get(obj, "and_types", PyList(<<>>))))>>
      [] node_type = "or" ->
             <<Item("or_types", Get(obj, "or", Get(obj, "or_types", PyList(<<>>))))>>
      [] node_type = "function" ->
             <<Item("parameters", Get(obj, "parameters", PyList(<<>>)))>>
      [] OTHER -> <<>>

\* _extract_common_props for the variants with const and enum, else
\* _extract_annotation_props
BaseProps(node_type, obj) ==
    IF TypeMap[node_type] \in PrimitiveClasses \cup {"ObjectType", "ArrayType", "TupleType"}
    THEN _extract_common_props(obj)
    ELSE _extract_annotation_props(obj)

\* the first of the subscripted keys that obj lacks, <<>> if none
MissingKeys(node_type, obj) ==
    SelectSeq(SubscriptedKeys(node_type), LAMBDA k : ~Has(obj, k))

\* _deserialize_<variant>_type(obj)
DeserializeVariant(node_type, obj) ==
    IF MissingKeys(node_type, obj) # <<>>
    THEN Failed(node_type, [exc |-> "KeyError", key |-> MissingKeys(node_type, obj)[1]])
    ELSE Construct(TypeMap[node_type],
                   BaseProps(node_type, obj)
                   \o Extract(obj, {SubscriptedKeys(node_type)[i] :
                                       i \in 1..Len(SubscriptedKeys(node_type))})
                   \o DefaultedArgs(node_type, obj)
                   \o Extract(obj, CopiedKeys(node_type)))

\* _deserialize_by_type inside the try of _deserialize_object_hook
_deserialize_by_type(node_type, obj) ==
    IF node_type \notin DOMAIN TypeMap
    THEN Failed(node_type, [exc |-> "ValueError", key |-> "Unknown node type"])
    ELSE DeserializeVariant(node_type, obj)

_is_object_property(obj) == Has(obj, "required") /\ Has(obj, "node") /\ ~Has(obj, "type")
\* the test for a function parameter without the look at the type value
_is_function_type_parameter_any_type(obj) ==
    /\ Has(obj, "name") /\ Has(obj, "type")
    /\ (Has(obj, "optional") \/ Has(obj, "default"))
\* the test for a tuple member; the hook does not call it
_is_tuple_member(obj) ==
    /\ Has(obj, "type")
    /\ (Has(obj, "name") \/ Has(obj, "optional"))
    /\ Get(obj, "type", None).cls # "str"
_is_function_type_parameter(obj) ==
    /\ Has(obj, "name") /\ Has(obj, "type")
    /\ (Has(obj, "optional") \/ Has(obj, "default"))
    /\ Get(obj, "type", None).cls # "str"
_is_param_type_node(obj) ==
    Has(obj, "symbol") /\ (Has(obj, "constraints") \/ Has(obj, "default"))
_is_named_type(obj) == Has(obj, "name") /\ Has(obj, "source")

_deserialize_object_property(obj) ==
    Construct("ObjectProperty", Extract(obj, {"required", "node"}))
\* the constructor of a tuple member; the hook does not call it
_deserialize_tuple_member(obj) ==
    Construct("TupleMember", Extract(obj, {"type", "name", "optional"}))
_deserialize_function_type_parameter(obj) ==
    Construct("FunctionTypeParameters", Extract(obj, {"name", "type", "optional", "default"}))
_deserialize_param_type_node(obj) ==
    Construct("ParamTypeNode", Extract(obj, {"symbol", "constraints", "default"}))

\* not node_type or not isinstance(node_type, str)
NoTypeTag(node_type) == node_type.cls # "str" \/ node_type.v = ""

\* the wrapper _deserialize_named_type builds around base_node; an exception out of the
\* recursive call goes through
NamedAround(base_node, obj) ==
    IF IsRaise(base_node) THEN base_node
    ELSE Construct(IF Has(obj, "genericTokens") THEN "NamedTypeWithGenerics"
                   ELSE "NamedType",
                   <<Item("base_node", base_node)>>
                   \o Extract(obj, {"name", "source", "genericTokens"})
                   \o Extract(obj, AnnotationKeys \ {"name"}))

RECURSIVE _deserialize_object_hook(_)
\* _deserialize_named_type
_deserialize_named_type(obj) ==
    NamedAround(
        _deserialize_object_hook(
            JDict(SelectSeq(obj.items,
                            LAMBDA it : it.key \notin {"name", "typeName", "source",
                                                       "genericTokens"}))),
        obj)

_deserialize_object_hook(obj) ==
    IF _is_named_type(obj) THEN _deserialize_named_type(obj)
    ELSE IF _is_object_property(obj) THEN _deserialize_object_property(obj)
    ELSE IF _is_function_type_parameter(obj) THEN _deserialize_function_type_parameter(obj)
    ELSE IF _is_param_type_node(obj) THEN _deserialize_param_type_node(obj)
    ELSE IF NoTypeTag(Get(obj, "type", None)) THEN obj
    ELSE _deserialize_by_type(Get(obj, "type", None).v, obj)

\* json.loads(json_string, object_hook=...): the values of an object or of a list are
\* loaded in document order, then the hook is called with the object; the first
\* exception ends the call
RECURSIVE Loads(_)
RECURSIVE LoadItems(_, _)
RECURSIVE LoadElements(_, _)
\* the loaded value v put under key into the object loaded so far
AddItem(acc, key, v) == IF IsRaise(v) THEN v ELSE JDict(Append(acc.items, Item(key, v)))
AddElement(acc, v) == IF IsRaise(v) THEN v ELSE PyList(Append(acc.items, v))
\* the items of an object loaded one after the other, acc the items loaded so far
LoadItems(items, acc) ==
    IF IsRaise(acc) \/ items = <<>> THEN acc
    ELSE LoadItems(Tail(items), AddItem(acc, Head(items).key, Loads(Head(items).value)))
LoadElements(elements, acc) ==
    IF IsRaise(acc) \/ elements = <<>> THEN acc
    ELSE LoadElements(Tail(elements), AddElement(acc, Loads(Head(elements))))
\* the hook called with the loaded object
Hooked(obj) == IF IsRaise(obj) THEN obj ELSE _deserialize_object_hook(obj)
Loads(json) ==
    IF json.cls = "dict" THEN Hooked(LoadItems(json.items, JDict(<<>>)))
    ELSE IF json.cls = "list" THEN LoadElements(json.items, PyList(<<>>))
    ELSE json

deserialize_xlr_node(json) == Loads(json)

(***************************************************************************)
(* The documents handed to the deserializer.                               *)
(***************************************************************************)
\* {"type": tag}
Tagged(tag) == JDict(<<Item("type", JStr(tag))>>)

\* the keys the sniffing looks at, in the order a document is written with them, and
\* the value a document gives each: a tag, a non-string type, a nested node
SniffKeys == <<"name", "source", "genericTokens", "required", "node", "optional",
               "default", "symbol", "constraints">>
SniffValue(key) ==
    CASE key = "name" -> JStr("N")
      [] key = "source" -> JStr("s.ts")
      [] key = "genericTokens" ->
             PyList(<<JDict(<<Item("symbol", JStr("T")), Item("default", Tagged("any"))>>)>>)
      [] key = "required" -> JBool(TRUE)
      [] key = "node" -> Tagged("string")
      [] key = "optional" -> JBool(FALSE)
      [] key = "default" -> Tagged("number")
      [] key = "symbol" -> JStr("T")
      [] key = "constraints" -> Tagged("boolean")

\* the values of the type key: a discriminant, a node, the empty string
TypeValues == {JStr("string"), JStr("object"), Tagged("string"), JStr("")}

\* the object with the sniffing keys of the set keys and the given type items
RECURSIVE ItemsOf(_, _)
ItemsOf(keys, from) ==
    IF from > Len(SniffKeys) THEN <<>>
    ELSE (IF SniffKeys[from] \in keys
          THEN <<Item(SniffKeys[from], SniffValue(SniffKeys[from]))>> ELSE <<>>)
         \o ItemsOf(keys, from + 1)
SniffKeySet == {SniffKeys[i] : i \in 1..Len(SniffKeys)}
SniffDocuments ==
    {JDict(ItemsOf(keys, 1)) : keys \in SUBSET SniffKeySet}
    \cup {JDict(<<Item("type", t)>> \o ItemsOf(keys, 1)) :
             keys \in SUBSET SniffKeySet, t \in TypeValues}

\* every key a variant's deserializer reads besides the annotations, and the value a
\* document gives it
VariantKeys(node_type) ==
    CASE node_type = "ref" -> <<"ref", "genericArguments", "property">>
      [] node_type = "object" -> <<"properties", "extends", "additionalProperties">>
      [] node_type = "array" -> <<"elementType">>
      [] node_type = "tuple" -> <<"elementTypes", "minItems", "additionalItems">>
      [] node_type = "and" -> <<"and">>
      [] node_type = "or" -> <<"or">>
      [] node_type = "template" -> <<"format">>
      [] node_type = "record" -> <<"keyType", "valueType">>
      [] node_type = "function" -> <<"parameters", "returnType">>
      [] node_type = "conditional" -> <<"check", "value">>
      [] OTHER -> <<"const", "title">>
VariantValue(key) ==
    CASE key \in {"ref", "property", "format", "const", "title"} -> JStr(key)
      [] key = "genericArguments" -> PyList(<<Tagged("string")>>)
      [] key = "properties" ->
             JDict(<<Item("p", JDict(<<Item("required", JBool(TRUE)),
                                       Item("node", Tagged("string"))>>))>>)
      [] key = "extends" -> JDict(<<Item("type", JStr("ref")), Item("ref", JStr("Asset"))>>)
      [] key \in {"additionalProperties", "additionalItems"} -> JBool(FALSE)
      [] key = "elementTypes" ->
             PyList(<<JDict(<<Item("type", Tagged("string")), Item("name", JStr("x"))>>)>>)
      [] key = "minItems" -> JInt(1)
      [] key \in {"and", "or"} -> PyList(<<Tagged("string"), Tagged("number")>>)
      [] key = "parameters" ->
             PyList(<<JDict(<<Item("name", JStr("x")), Item("type", Tagged("string")),
                             Item("optional", JBool(TRUE))>>)>>)
      [] OTHER -> Tagged("string")

\* the discriminants of the documents: the nineteen known ones and three that are not
UnknownTags == {"String", "enum", "objectt"}
DocumentTags == DOMAIN TypeMap \cup UnknownTags

RECURSIVE VariantItems(_, _, _)
VariantItems(node_type, keys, from) ==
    IF from > Len(VariantKeys(node_type)) THEN <<>>
    ELSE (IF from \in keys
          THEN <<Item(VariantKeys(node_type)[from], VariantValue(VariantKeys(node_type)[from]))>>
          ELSE <<>>)
         \o VariantItems(node_type, keys, from + 1)
\* {"type": node_type, ...} with the keys of the variant at the positions keys
VariantDocument(node_type, keys) ==
    JDict(<<Item("type", JStr(node_type))>> \o VariantItems(node_type, keys, 1))
VariantDocuments ==
    {VariantDocument(t, keys) :
        t \in DocumentTags, keys \in SUBSET (1..3)}

\* a document as the top-level type of a file, and as the element type of an array
AsNamed(doc) == JDict(<<Item("name", JStr("N")), Item("source", JStr("s.ts"))>> \o doc.items)
AsElement(doc) == JDict(<<Item("type", JStr("array")), Item("elementType", doc)>>)
\* the descriptor of a property: {"required": true, "node": {"type": "string"}}
Descriptor == JDict(<<Item("required", JBool(TRUE)), Item("node", Tagged("string"))>>)
\* the names of the properties of an object node: plain ones, and names that are keys
\* the sniffing looks at
PropertyNames ==
    { <<"p">>, <<"p", "q">>, <<"name">>, <<"type">>, <<"name", "source">>,
      <<"required", "node">>, <<"symbol", "default">>, <<"symbol", "constraints">>,
      <<"name", "type", "optional">> }
\* {"type": "object", "properties": {name: descriptor, ...}}
ObjectDocument(names) ==
    JDict(<<Item("type", JStr("object")),
            Item("properties", JDict([i \in 1..Len(names) |-> Item(names[i], Descriptor)]))>>)
\* the elements of the elementTypes of a tuple node: a node under type, with or
\* without a name and the optional flag
TupleElements ==
    {JDict(<<Item("type", Tagged("string"))>>
           \o (IF n THEN <<Item("name", JStr("x"))>> ELSE <<>>)
           \o (IF o = "" THEN <<>> ELSE <<Item("optional", JBool(o = "true"))>>)) :
        n \in BOOLEAN, o \in {"", "true", "false"}}
\* {"type": "tuple", "elementTypes": [...], "minItems": 1}
TupleDocument(elements) ==
    JDict(<<Item("type", JStr("tuple")), Item("elementTypes", PyList(elements)),
            Item("minItems", JInt(1))>>)
TupleDocuments ==
    {TupleDocument(<<e>>) : e \in TupleElements}
    \cup {TupleDocument(<<e1, e2>>) : e1, e2 \in TupleElements}

Documents ==
    SniffDocuments \cup VariantDocuments
    \cup {AsNamed(d) : d \in VariantDocuments} \cup {AsElement(d) : d \in VariantDocuments}
    \cup {ObjectDocument(names) : names \in PropertyNames} \cup TupleDocuments

(***************************************************************************)
(* The way back to the wire form.  The repository's writer of the wire     *)
(* form is not among the Python sources; it is taken from what the         *)
(* specification asks of it: the wire form is rebuilt from the accessors   *)
(* of the node model, every field that is set written under its key.       *)
(***************************************************************************)
\* the accessors of the node classes, in the order the writer goes through them
FieldOrder ==
    <<"name", "source", "genericTokens", "symbol", "constraints", "required", "node",
      "ref", "genericArguments", "property", "properties", "extends",
      "additionalProperties", "elementType", "elementTypes", "minItems",
      "additionalItems", "and_types", "or_types", "format", "keyType", "valueType",
      "parameters", "returnType", "check", "value", "type", "optional",
      "const", "enum", "title", "description", "examples", "default", "see", "comment",
      "meta">>
\* the key of the wire form an accessor's value goes under
WireKey(field) ==
    CASE field = "and_types" -> "and" [] field = "or_types" -> "or" [] OTHER -> field

RECURSIVE serialize_back(_)
RECURSIVE WriteFields(_, _)
RECURSIVE WriteEach(_)
\* the items of the accessors from position from on that hold a value
WriteFields(node, from) ==
    IF from > Len(FieldOrder) THEN <<>>
    ELSE (IF FieldOrder[from] \in DOMAIN node /\ FieldOrder[from] # "base_node"
             /\ node[FieldOrder[from]] # None
          THEN <<Item(WireKey(FieldOrder[from]), serialize_back(node[FieldOrder[from]]))>>
          ELSE <<>>)
         \o WriteFields(node, from + 1)
\* the items of a dict, the elements of a list written one by one
WriteEach(items) ==
    IF items = <<>> THEN <<>>
    ELSE <<(IF "key" \in DOMAIN Head(items)
            THEN Item(Head(items).key, serialize_back(Head(items).value))
            ELSE serialize_back(Head(items)))>>
         \o WriteEach(Tail(items))
\* the wire form of a named type: its own fields, then what the wrapped node writes
NamedWire(own, base) ==
    JDict(own \o SelectSeq(base.items, LAMBDA it : ~DictHas(own, it.key)))
serialize_back(v) ==
    IF v.cls \in {"str", "bool", "int", "NoneType"} THEN v
    ELSE IF v.cls = "dict" THEN JDict(WriteEach(v.items))
    ELSE IF v.cls = "list" THEN PyList(WriteEach(v.items))
    ELSE IF v.cls \in {"NamedType", "NamedTypeWithGenerics"}
    THEN NamedWire(WriteFields(v, 1), serialize_back(v.base_node))
    ELSE JDict(WriteFields(v, 1))

(***************************************************************************)
(* The deserializer's calls: one document is deserialized, the graph is    *)
(* written back and what was written is deserialized again.                *)
(***************************************************************************)
\* deserialize_xlr_node(json_string)
Deserialize(json) ==
    /\ des_pc = "idle"
    /\ des_doc' = json
    /\ des_out' = deserialize_xlr_node(json)
    /\ des_pc' = "loaded"
    /\ UNCHANGED <<des_wire, des_again, besidesDes>>

\* the node graph written back to the wire form
SerializeBack ==
    /\ des_pc = "loaded"
    /\ ~IsRaise(des_out)
    /\ des_wire' = serialize_back(des_out)
    /\ des_pc' = "written"
    /\ UNCHANGED <<des_doc, des_out, des_again, besidesDes>>

\* deserialize_xlr_node of what was written
DeserializeAgain ==
    /\ des_pc = "written"
    /\ des_again' = deserialize_xlr_node(des_wire)
    /\ des_pc' = "reloaded"
    /\ UNCHANGED <<des_doc, des_out, des_wire, besidesDes>>

DesInit == GenIdle /\ GuardsIdle /\ BatchIdle /\ OthersIdle /\ DesIdle /\ dir_exists = FALSE /\ files = {}
DesNext ==
    \/ \E json \in Documents : Deserialize(json)
    \/ SerializeBack
    \/ DeserializeAgain
SpecDeserializer == DesInit /\ [][DesNext]_vars

(***************************************************************************)
(* What the deserializer's documents come out as.                          *)
(***************************************************************************)
\* the document without the keys of the named wrapper
WithoutNaming(doc) ==
    JDict(SelectSeq(doc.items,
                    LAMBDA it : it.key \notin {"name", "typeName", "source", "genericTokens"}))

\* the shape the priority order gives a JSON object, from the keys it has
ShapeOf(doc) ==
    IF Has(doc, "name") /\ Has(doc, "source")
    THEN IF Has(doc, "genericTokens") THEN "NamedTypeWithGenerics" ELSE "NamedType"
    ELSE IF Has(doc, "required") /\ Has(doc, "node") /\ ~Has(doc, "type")
    THEN "ObjectProperty"
    ELSE IF /\ Has(doc, "name") /\ Has(doc, "type")
            /\ Has(doc, "optional") \/ Has(doc, "default")
            /\ DictGet(doc.items, "type").cls # "str"
    THEN "FunctionTypeParameters"
    ELSE IF Has(doc, "symbol") /\ (Has(doc, "constraints") \/ Has(doc, "default"))
    THEN "ParamTypeNode"
    ELSE "by tag"

\* the document deserialized is a JSON object and no exception came out
Deserialized == des_pc = "loaded" /\ des_doc.cls = "dict" /\ ~IsRaise(des_out)

\* C11: a JSON object comes out as the first shape of the priority order its keys
\* match: with name and source a NamedType, a NamedTypeWithGenerics exactly when it
\* has genericTokens, around the object without name, typeName, source and
\* genericTokens deserialized by the same dispatch; else with required and node and
\* no type an ObjectProperty; else with name, a non-string type and optional or
\* default a FunctionTypeParameters; else with symbol and constraints or default a
\* ParamTypeNode; else what its string type tag says.
C11_SniffingPriority ==
    Deserialized =>
        /\ ShapeOf(des_doc) # "by tag" => des_out.cls = ShapeOf(des_doc)
        /\ ShapeOf(des_doc) \in {"NamedType", "NamedTypeWithGenerics"} =>
               des_out.base_node = deserialize_xlr_node(WithoutNaming(des_doc))
        /\ ShapeOf(des_doc) = "by tag" =>
               /\ des_out.cls \notin {"NamedType", "NamedTypeWithGenerics", "ObjectProperty",
                                      "FunctionTypeParameters", "ParamTypeNode"}
               /\ /\ Has(des_doc, "type")
                  /\ DictGet(des_doc.items, "type").cls = "str"
                  /\ DictGet(des_doc.items, "type").v \in DOMAIN TypeMap
                  => des_out.cls = TypeMap[DictGet(des_doc.items, "type").v]

\* a document with the keys of the named type, of the object property and of the
\* parameter node came out as the named type around the object property
C11_Witness ==
    /\ Deserialized
    /\ \A k \in {"name", "source", "required", "node", "symbol", "constraints"} :
           Has(des_doc, k)
    /\ ~Has(des_doc, "type") /\ ~Has(des_doc, "genericTokens")
    /\ des_out.cls = "NamedType"
    /\ des_out.base_node.cls = "ObjectProperty"

\* the discriminants of the node model
KnownDiscriminants ==
    {"any", "unknown", "undefined", "null", "void", "never", "string", "number", "boolean",
     "ref", "object", "array", "tuple", "record", "and", "or", "function", "conditional",
     "template"}

\* the value of the type key of the document, None without one
TypeOf(doc) == IF Has(doc, "type") THEN DictGet(doc.items, "type") ELSE None

\* the document deserialized is a JSON object that none of the helper shapes matches,
\* its values load, and its type is a string that is no discriminant
UnknownTagDispatched ==
    /\ des_pc = "loaded" /\ des_doc.cls = "dict"
    /\ ShapeOf(des_doc) = "by tag"
    /\ ~IsRaise(LoadItems(des_doc.items, JDict(<<>>)))
    /\ TypeOf(des_doc).cls = "str"
    /\ TypeOf(des_doc).v \notin KnownDiscriminants

\* the call ended with a ValueError that names the tag
RejectedNaming(tag) ==
    IsRaise(des_out) /\ des_out.exc = "ValueError" /\ des_out.node_type = tag

\* C12: a JSON object that reaches the tag dispatch with a string type that is not a
\* known discriminant makes the call fail with a ValueError naming that string; it
\* comes out neither as a node nor as the plain dict.
C12_UnknownTagRejected ==
    UnknownTagDispatched => RejectedNaming(TypeOf(des_doc).v)

\* the document {"type": ""} came back as the plain dict
C12_Witness ==
    /\ UnknownTagDispatched
    /\ des_doc = Tagged("")
    /\ des_out = des_doc

\* an unknown discriminant that is not the empty string is rejected by name, at the top
\* level, inside a named type and inside an array
NonEmptyUnknownTagRejected ==
    /\ UnknownTagDispatched /\ TypeOf(des_doc).v # "" => RejectedNaming(TypeOf(des_doc).v)
    /\ des_pc = "loaded" =>
           \A d \in VariantDocuments :
               /\ TypeOf(d).v \in UnknownTags
               /\ des_doc \in {AsNamed(d), AsElement(d)}
               => RejectedNaming(TypeOf(d).v)
NonEmptyUnknownTagWitness ==
    /\ des_pc = "loaded"
    /\ \E d \in VariantDocuments : TypeOf(d).v \in UnknownTags /\ des_doc = AsElement(d)
    /\ IsRaise(des_out)

\* the fields a variant requires of its JSON object
RequiredOf(tag) ==
    CASE tag = "ref" -> {"ref"}
      [] tag = "object" -> {"properties"}
      [] tag = "array" -> {"elementType"}
      [] tag = "tuple" -> {"elementTypes", "minItems"}
      [] tag = "and" -> {"and"}
      [] tag = "or" -> {"or"}
      [] tag = "record" -> {"keyType", "valueType"}
      [] tag = "function" -> {"parameters"}
      [] tag = "conditional" -> {"check", "value"}
      [] tag = "template" -> {"format"}
      [] OTHER -> {}

\* the document deserialized is a JSON object with a known tag that lacks a field its
\* variant requires, and what it has loads
RequiredFieldMissing ==
    /\ des_pc = "loaded" /\ des_doc.cls = "dict"
    /\ ShapeOf(des_doc) = "by tag"
    /\ ~IsRaise(LoadItems(des_doc.items, JDict(<<>>)))
    /\ TypeOf(des_doc).cls = "str"
    /\ TypeOf(des_doc).v \in KnownDiscriminants
    /\ \E f \in RequiredOf(TypeOf(des_doc).v) : ~Has(des_doc, f)

\* C13: a JSON object with a variant's tag but without a field the variant requires
\* makes the call fail with an error naming the discriminant; no default is filled in.
C13_MissingFieldRejected ==
    RequiredFieldMissing => RejectedNaming(TypeOf(des_doc).v)

\* the document {"type": "object"} came out as an ObjectType with no properties
C13_Witness ==
    /\ RequiredFieldMissing
    /\ des_doc = Tagged("object")
    /\ des_out.cls = "ObjectType"
    /\ des_out.properties = JDict(<<>>)

\* the variants whose deserializer subscripts the required fields reject the object by
\* name; the four that read them with a default never do
SubscriptingVariants == {"ref", "array", "tuple", "record", "conditional", "template"}
MissingFieldRejectedWhereSubscripted ==
    RequiredFieldMissing =>
        (TypeOf(des_doc).v \in SubscriptingVariants <=> RejectedNaming(TypeOf(des_doc).v))
MissingFieldRejectedWitness ==
    /\ RequiredFieldMissing
    /\ TypeOf(des_doc).v = "tuple" /\ Has(des_doc, "elementTypes")
    /\ RejectedNaming("tuple")

\* a document of the wire format: a known tag with every field its variant requires,
\* at the top level, as a named type or as the element type of an array
ValidDocuments ==
    {d \in VariantDocuments :
        /\ TypeOf(d).v \in KnownDiscriminants
        /\ \A f \in RequiredOf(TypeOf(d).v) : Has(d, f)}
ValidDocument(doc) ==
    \E d \in ValidDocuments : doc \in {d, AsNamed(d), AsElement(d)}

\* every key of the JSON value doc is in wire with a value that covers its value
RECURSIVE Covers(_, _)
Covers(wire, doc) ==
    IF doc.cls = "dict"
    THEN /\ wire.cls = "dict"
         /\ \A i \in 1..Len(doc.items) :
                /\ Has(wire, doc.items[i].key)
                /\ Covers(DictGet(wire.items, doc.items[i].key), doc.items[i].value)
    ELSE IF doc.cls = "list"
    THEN /\ wire.cls = "list"
         /\ Len(wire.items) = Len(doc.items)
         /\ \A i \in 1..Len(doc.items) : Covers(wire.items[i], doc.items[i])
    ELSE wire = doc

HasValidation(object_type) ==
    \E i \in 1..Len(PropsOf(object_type)) : PropsOf(object_type)[i].key = s_validation
s_View == <<"V","i","e","w">>

\* C14: the emitted top-level class extends Asset when the top-level object type has a
\* property named validation, for either family; otherwise Asset for the family asset
\* and View for the family view. No nested class extends Asset or View.
C14_BaseClass ==
    pc = "done" =>
        \A ci \in 1..Len(EmittedClasses) :
            IF IsTopLevel(EmittedClasses[ci])
            THEN EmittedClasses[ci].bases =
                     <<IF HasValidation(input.root.base_node) \/ input.type = s_asset
                       THEN s_Asset ELSE s_View>>
            ELSE \A b \in 1..Len(EmittedClasses[ci].bases) :
                     EmittedClasses[ci].bases[b] \notin {s_Asset, s_View}

\* a view with a validation property and a nested class was emitted
C14_Witness ==
    /\ pc = "done"
    /\ input.type = s_view
    /\ HasValidation(input.root.base_node)
    /\ Len(EmittedClasses) > 1
    /\ \E ci \in 1..Len(EmittedClasses) :
           IsTopLevel(EmittedClasses[ci]) /\ EmittedClasses[ci].bases = <<s_Asset>>

\* the generic tokens of the input, as the call was given them
TokensOfInput ==
    IF input.root.cls = "NamedTypeWithGenerics" THEN input.root.genericTokens ELSE <<>>
\* the token object of the input as it is now: the generator's dict holds the very
\* objects of the input's genericTokens list
TokenNow(symbol) == DictGet(generic_tokens, symbol)
\* some property of the top-level type names the token and has the given title
NamedByProperty(symbol, title) ==
    \E i \in 1..Len(PropsOf(input.root.base_node)) :
        /\ PropsOf(input.root.base_node)[i].value.node.cls = "RefType"
        /\ PropsOf(input.root.base_node)[i].value.node.ref = symbol
        /\ PropsOf(input.root.base_node)[i].value.node.title = title

\* C20: generic resolution does not leak: after the generation the default node of
\* every generic token of the input, its title and description included, is what it
\* was before the call.
C20_TokenDefaultUntouched ==
    pc = "done" =>
        \A i \in 1..Len(TokensOfInput) :
            TokenNow(TokensOfInput[i].symbol).default = TokensOfInput[i].default

\* two properties with titles of their own named one token: after the call the
\* token's default has the title of one of them and no longer its own
C20_Witness ==
    /\ pc = "done"
    /\ Len(TokensOfInput) = 1
    /\ NamedByProperty(TokensOfInput[1].symbol, <<"t","a">>)
    /\ NamedByProperty(TokensOfInput[1].symbol, <<"t","b">>)
    /\ TokensOfInput[1].default.title = <<>>
    /\ TokenNow(TokensOfInput[1].symbol).default.title = <<"t","b">>

(***************************************************************************)
(* The batch entry point (language/generators/python/src/__main__.py): the *)
(* types the manifest lists are generated one after the other, the Assets  *)
(* first, then the Views.  An exception of a call is caught nowhere in the *)
(* script: it ends the run.                                                *)
(***************************************************************************)
s_Good == <<"G","o","o","d">>
s_Nest == <<"N","e","s","t">>
s_Bad  == <<"B","a","d">>
s_Half == <<"H","a","l","f">>
\* the names that have a document <name>.json in the input directory
DocumentNames == {s_Good, s_Nest, s_Bad, s_Half}

\* what deserialize_xlr_node gives for <name>.json: two named object types, a named
\* string (refused by generate_python_classes), and a named object type whose
\* generation raises after the output directory was made
DocumentOf(name) ==
    CASE name = s_Good -> NamedType(Obj(<<Prop(n_a, TRUE, StringNode)>>), s_Good)
      [] name = s_Nest -> NamedType(Obj(<<Prop(n_m, FALSE, ObjX),
                                          Prop(s_validation, FALSE, StringNode)>>), s_Nest)
      [] name = s_Bad  -> NamedType(StringNode, s_Bad)
      [] name = s_Half -> NamedType(Obj(<<Prop(n_m, TRUE, Prim("NullType", <<"c">>))>>),
                                    s_Half)

\* the longest list of the manifest
MaxListed == 2
NameLists == UNION {[1..n -> DocumentNames] : n \in 0..MaxListed}
Manifests == [Assets : NameLists, Views : NameLists]

\* the calls of the run in their order: [name, type]
RECURSIVE WithFamily(_, _)
WithFamily(names, type) ==
    IF names = <<>> THEN <<>>
    ELSE <<[name |-> Head(names), type |-> type]>> \o WithFamily(Tail(names), type)
Listed(m) == WithFamily(m.Assets, s_asset) \o WithFamily(m.Views, s_view)

\* the input directory with its manifest.json, before the script runs
BatchInit ==
    /\ GenIdle /\ GuardsIdle /\ DesIdle /\ OthersIdle
    /\ dir_exists = FALSE /\ files = {}
    /\ batch_pc = "start"
    /\ manifest \in Manifests
    /\ batch_i = 1

\* the arguments are parsed: without -i the script prints the error and exits with -1;
\* else it loads manifest.json
BatchBegin ==
    /\ batch_pc = "start"
    /\ \E given \in BOOLEAN : batch_pc' = IF given THEN "loop" ELSE "exited"
    /\ UNCHANGED <<manifest, batch_i, genVars, guardVars, desVars, othersVars>>

\* the body of the loop up to the call: the document of the next listed type is read
\* and deserialized, generate_python_classes is called with it
BatchCall ==
    /\ batch_pc = "loop"
    /\ batch_i <= Len(Listed(manifest))
    /\ CallOf(DocumentOf(Listed(manifest)[batch_i].name), Listed(manifest)[batch_i].type)
    /\ UNCHANGED <<batchVars, desVars, othersVars>>

\* generate_python_classes returned: the loop goes on with a generator of its own for
\* the next type
BatchReturn ==
    /\ batch_pc = "loop"
    /\ pc = "done"
    /\ batch_i' = batch_i + 1
    /\ pc' = "idle"
    /\ input' = [root |-> None, type |-> s_asset]
    /\ built' = FALSE
    /\ classes' = <<>>
    /\ classes_to_generate' = <<>>
    /\ generic_tokens' = <<>>
    /\ loop_i' = 0
    /\ module_body' = <<>>
    /\ main_class' = <<>>
    /\ error' = ""
    /\ UNCHANGED <<batch_pc, manifest, dir_exists, files, located, guardVars, desVars,
                   othersVars>>

\* generate_python_classes raised: nothing catches the exception, the script ends
BatchRaise ==
    /\ batch_pc = "loop"
    /\ pc = "failed"
    /\ batch_pc' = "crashed"
    /\ UNCHANGED <<manifest, batch_i, genVars, guardVars, desVars, othersVars>>

\* both loops are through
BatchEnd ==
    /\ batch_pc = "loop"
    /\ pc = "idle"
    /\ batch_i > Len(Listed(manifest))
    /\ batch_pc' = "finished"
    /\ UNCHANGED <<manifest, batch_i, genVars, guardVars, desVars, othersVars>>

\* the steps of generate() inside a call of the run
BatchGenerate ==
    /\ batch_pc = "loop"
    /\ GenerateMainClass \/ GenerateNestedClass \/ WriteFile

BatchNext ==
    \/ BatchBegin
    \/ BatchCall
    \/ BatchGenerate
    \/ BatchReturn
    \/ BatchRaise
    \/ BatchEnd

\* where the run is: every step of the run changes it
ctlVars == <<batch_pc, batch_i, pc, loop_i>>
\* the run has a next statement: the guards of the steps
Runnable ==
    \/ batch_pc = "start"
    \/ /\ batch_pc = "loop"
       /\ \/ pc = "idle"
          \/ pc \in {"generate", "loop", "done", "failed"}
\* the run goes on to its next statement
Advance ==
    /\ Runnable
    /\ batch_pc' \in {"start", "loop", "finished", "exited", "crashed"}
    /\ batch_i' \in {batch_i, batch_i + 1}
    /\ pc' \in {"idle", "generate", "loop", "done", "failed"}
    /\ loop_i' \in {0, 1, loop_i, loop_i + 1}
    /\ ctlVars' # ctlVars
\* the script runs on until it ends: its next statement is not put off for ever
SpecBatch == BatchInit /\ [][BatchNext]_vars /\ WF_ctlVars(Advance)
\* the run with a step that does nothing where it has no next statement
BatchNextOrEnded == BatchNext \/ (~Runnable /\ UNCHANGED vars)
SpecBatchOrEnded == BatchInit /\ [][BatchNextOrEnded]_vars

\* the listed types whose own document is valid: their call, alone, writes the file
ValidNames == {s_Good, s_Nest}
\* the positions of the run's calls that are for the type name
PositionsOf(name) == {i \in 1..Len(Listed(manifest)) : Listed(manifest)[i].name = name}
HasFile(name) == \E f \in files : f.name = FileName(name)

\* a call of the run fails exactly for the two documents that are not valid
OnlyInvalidDocumentsFail ==
    pc = "failed" => input.root.name \notin ValidNames
OnlyInvalidDocumentsFailWitness ==
    pc = "failed" /\ input.root.name = s_Half /\ dir_exists

\* C15: in a batch run a failing generation call does not keep the calls for the other
\* listed types from running: every listed type whose own document is valid
\* eventually has its output file.
C15_EveryValidTypeGenerated ==
    \A name \in ValidNames :
        (batch_pc = "loop" /\ PositionsOf(name) # {}) ~> HasFile(name)

\* the run ended with the exception of one call and a listed valid type has no file
C15_Witness ==
    /\ batch_pc = "crashed"
    /\ \E name \in ValidNames : PositionsOf(name) # {} /\ ~HasFile(name)

\* a listed valid type gets its file when no type listed before it fails
NoFailureBefore(name) ==
    \E i \in PositionsOf(name) :
        \A j \in 1..(i - 1) : Listed(manifest)[j].name \in ValidNames
ValidTypeGeneratedUnlessFailureBefore ==
    \A name \in ValidNames :
        (batch_pc = "loop" /\ NoFailureBefore(name)) ~> HasFile(name)
\* after the exception of a call the run takes no step
CrashEndsRun == [][batch_pc = "crashed" => UNCHANGED vars]_vars
\* every step of the run is taken where the run has a next statement and moves on
StepsAdvance == [][Runnable /\ ctlVars' # ctlVars]_vars

(***************************************************************************)
(* Two calls of generate_python_classes interleaved (one worker per type). *)
(* Each call has its ClassGenerator, its module and its position; the      *)
(* calls share the output directory and the nodes of COMMON_AST_NODES.     *)
(* The variables of the call hold the state of the running call, other     *)
(* the state of the suspended one.                                         *)
(***************************************************************************)
\* the running call's own state
CallState ==
    [pc |-> pc, input |-> input, built |-> built, classes |-> classes,
     classes_to_generate |-> classes_to_generate, generic_tokens |-> generic_tokens,
     loop_i |-> loop_i, module_body |-> module_body, main_class |-> main_class,
     error |-> error]

\* the scheduler suspends the running call between two of its steps and resumes the
\* other one, which has steps left
ContextSwitch ==
    /\ pc # "idle"
    /\ other.pc \notin {"done", "failed"}
    /\ other' = CallState
    /\ running' = 3 - running
    /\ pc' = other.pc
    /\ input' = other.input
    /\ built' = other.built
    /\ classes' = other.classes
    /\ classes_to_generate' = other.classes_to_generate
    /\ generic_tokens' = other.generic_tokens
    /\ loop_i' = other.loop_i
    /\ module_body' = other.module_body
    /\ main_class' = other.main_class
    /\ error' = other.error
    /\ UNCHANGED <<dir_exists, files, located, guardVars, desVars, batchVars, viewVars>>

\* the documents of the two calls: the first call's types are named Top, the second
\* call's have the names of the batch documents
FirstRoots == CuratedRoots \cup InvalidRoots
SecondRoots == {DocumentOf(name) : name \in DocumentNames}

\* the running call begins
TwoCall ==
    \E root \in IF running = 1 THEN FirstRoots ELSE SecondRoots, type \in Families :
        CallOf(root, type) /\ UNCHANGED restVars

TwoInit ==
    /\ GenIdle /\ GuardsIdle /\ DesIdle /\ BatchIdle /\ OthersIdle
    /\ dir_exists = FALSE /\ files = {}
TwoNext ==
    \/ TwoCall
    \/ GenerateMainClass
    \/ GenerateNestedClass
    \/ WriteFile
    \/ ContextSwitch
SpecTwoCalls == TwoInit /\ [][TwoNext]_vars

\* the state of call c
StateOf(c) == IF running = c THEN CallState ELSE other

\* generate() from the loop on, run by itself: [err, content]
RECURSIVE LoopAlone(_, _, _, _, _)
LoopAlone(G, body, i, main, base_length) ==
    IF i > Len(G.classes) THEN [err |-> "", content |-> ast_to_source(Append(body, main))]
    ELSE IF DictHas(G.ctg, G.classes[i])
    THEN LET r == _generate_nested_class(G.classes[i], DictGet(G.ctg, G.classes[i]), G)
         IN IF r.G.err # "" THEN [err |-> r.G.err, content |-> <<>>]
            ELSE LoopAlone(r.G, InsertAt(body, base_length, r.class), i + 1, main,
                           base_length)
    ELSE LoopAlone(G, body, i + 1, main, base_length)
\* a call of generate_python_classes run by itself: [err, content]
GenerateAlone(root, type) ==
    IF RootRejected(root) THEN [err |-> "ValueError", content |-> <<>>]
    ELSE LET G0 == ClassGeneratorInit(root)
         IN IF G0.err # "" THEN [err |-> G0.err, content |-> <<>>]
            ELSE LET r == _generate_main_class(root, type, G0)
                 IN IF r.G.err # "" THEN [err |-> r.G.err, content |-> <<>>]
                    ELSE LoopAlone(r.G, _add_imports(type), 1, r.class,
                                   Len(_add_imports(type)))

\* C16: whatever the interleaving of two calls for types of different names, a call
\* that ends has written the file named after its own type with the content the call
\* gives when it runs by itself, a call that fails fails as it does by itself, and the
\* directory holds no other file.
C16_CallsIndependent ==
    /\ \A c \in {1, 2} :
           /\ StateOf(c).pc = "done" =>
                  /\ GenerateAlone(StateOf(c).input.root, StateOf(c).input.type).err = ""
                  /\ [name |-> FileName(StateOf(c).input.root.name),
                      content |-> GenerateAlone(StateOf(c).input.root,
                                                StateOf(c).input.type).content] \in files
           /\ StateOf(c).pc = "failed" =>
                  StateOf(c).error =
                      GenerateAlone(StateOf(c).input.root, StateOf(c).input.type).err
    /\ \A f \in files :
           \E c \in {1, 2} : /\ StateOf(c).pc = "done"
                             /\ f.name = FileName(StateOf(c).input.root.name)

\* the second call ran from its beginning to its file while the first call, begun
\* before it, was suspended between two of its steps; the first call, resumed, wrote
\* its file last (a call that has ended is never resumed)
C16_Witness ==
    /\ running = 1
    /\ StateOf(1).pc = "done" /\ StateOf(2).pc = "done"
    /\ Cardinality(files) = 2
    /\ Len(StateOf(1).module_body) > 4 /\ Len(StateOf(2).module_body) > 3
    /\ {"self", "Optional"} \subseteq located

(***************************************************************************)
(* The generated module used by a program: test_generate_action            *)
(* (test_generator.py) imports the written module, builds an ActionAsset,  *)
(* calls its mutators and serializes it with the runtime of view.py.       *)
(***************************************************************************)
s_ActionAsset == <<"A","c","t","i","o","n","A","s","s","e","t">>
s_Metadata == <<"M","e","t","a","d","a","t","a">>
s_value == <<"v","a","l","u","e">>
s_exp == <<"e","x","p">>
s_metaData == <<"m","e","t","a","D","a","t","a">>
s_beacon == <<"b","e","a","c","o","n">>
s_skipValidation == <<"s","k","i","p","V","a","l","i","d","a","t","i","o","n">>
s_role == <<"r","o","l","e">>
s_withValue == <<"w","i","t","h","V","a","l","u","e">>
s_withExp == <<"w","i","t","h","E","x","p">>
s_withMetadata == <<"w","i","t","h","M","e","t","a","d","a","t","a">>

\* the type of __helpers__/ActionAsset.json: extends Asset<"action">, a required exp
\* (Expression), an optional value (string), an object property metaData
ActionAssetIR ==
    NamedType(
        ObjectType(<<Prop(s_value, FALSE, StringNode),
                     Prop(s_exp, TRUE, Ref(s_Expression)),
                     Prop(s_metaData, FALSE,
                          Obj(<<Prop(s_beacon, FALSE, RecordType(StringNode, StringNode)),
                                Prop(s_skipValidation, FALSE, BooleanNode),
                                Prop(s_role, FALSE, StringNode)>>))>>,
                   RefType(s_Asset, <<Prim("StringType", <<"action">>)>>, <<>>, <<>>),
                   <<>>, <<>>),
        s_ActionAsset)

\* the names a module can import from player_tools_dsl.view: what view.py defines or
\* imports at its top level
ViewNames ==
    {"List", "Optional", "Union", "Literal", "Any", "dumps", "CrossfieldReference",
     "isPrivateProperty", "isInternalMethod", "_default_json_encoder",
     "isAssetWrapperOrSwitch", "Serializable", "Asset", "View", "AssetWrapper",
     "SwitchCase", "Switch", "AssetWrapperOrSwitch", "Template"}

\* from player_tools_dsl.view import ...: the names of the statement view.py lacks
MissingNames(content) ==
    UNION {IF content[i].k = "ImportFrom" /\ content[i].module = "player_tools_dsl.view"
           THEN {content[i].names[j] : j \in 1..Len(content[i].names)} \ ViewNames
           ELSE {} : i \in 1..Len(content)}

\* an exception of the runtime
Raised(exc) == [cls |-> "raise", exc |-> exc]
\* an instance of a generated class: its __dict__
Instance(of, dict) == [cls |-> "instance", of |-> of, dict |-> dict]

\* the class of the module with the name
ClassOf(content, name) ==
    content[CHOOSE i \in 1..Len(content) :
                content[i].k = "ClassDef" /\ content[i].name = name]

\* the call of a function with positional and keyword arguments: [exc, args], args the
\* value of every parameter after self, exc TypeError when a parameter without
\* default gets no value
RECURSIVE Bind(_, _, _, _)
Bind(signature, i, positional, keywords) ==
    IF i > Len(signature) THEN [exc |-> "", args |-> <<>>]
    ELSE LET parameter == signature[i]
             rest == Bind(signature, i + 1, positional, keywords)
         IN IF rest.exc # "" THEN rest
            ELSE IF i - 1 <= Len(positional)
            THEN [rest EXCEPT !.args = <<Item(parameter.arg, positional[i - 1])>> \o @]
            ELSE IF DictHas(keywords, parameter.arg)
            THEN [rest EXCEPT !.args = <<Item(parameter.arg,
                                              DictGet(keywords, parameter.arg))>> \o @]
            ELSE IF parameter.default = <<>> THEN [exc |-> "TypeError", args |-> <<>>]
            ELSE [rest EXCEPT !.args = <<Item(parameter.arg, None)>> \o @]

\* self.<name> = <name> for the names the constructor assigns
RECURSIVE Assigned(_, _, _)
Assigned(dict, names, args) ==
    IF names = <<>> THEN dict
    ELSE Assigned(DictSet(dict, Head(names), DictGet(args, Head(names))), Tail(names), args)

\* the value of the class attribute, <<>> when the class body assigns none
ClassAttribute(class, name) ==
    LET at == {i \in 1..Len(class.fields) :
                  class.fields[i].target = name /\ class.fields[i].value # <<>>}
    IN IF at = {} THEN <<>>
       ELSE <<JStr(class.fields[CHOOSE i \in at : TRUE].value[1].value)>>

\* __init__ of a generated class once the arguments are bound: for an asset
\* super().__init__(id, self.type), which is Asset.__init__ (self.id = id,
\* self.type = type), then the assignments
Initialized(class, bound) ==
    IF bound.exc # "" THEN Raised(bound.exc)
    ELSE IF class.init[1].super_args = <<>>
    THEN Instance(class.name, Assigned(<<>>, class.init[1].assigns, bound.args))
    ELSE IF ClassAttribute(class, s_type) = <<>> THEN Raised("AttributeError")
    ELSE Instance(class.name,
                  Assigned(<<Item(s_id, DictGet(bound.args, s_id)),
                             Item(s_type, ClassAttribute(class, s_type)[1])>>,
                           class.init[1].assigns, bound.args))

\* ClassName(*positional, **keywords)
New(content, name, positional, keywords) ==
    Initialized(ClassOf(content, name),
                Bind(ClassOf(content, name).init[1].signature, 2, positional, keywords))

\* AssetWrapper.__init__: self.asset = asset
AssetWrapper(asset) == [cls |-> "AssetWrapper", asset |-> asset]
\* Switch.__init__ with the default argument
Switch == [cls |-> "Switch", dynamic |-> FALSE]
isAssetWrapperOrSwitch(obj) == obj.cls \in {"AssetWrapper", "Switch"}

\* Serializable._withSlot: the value stored under the name
SlotValue(obj, wrapInAssetWrapper, isArray) ==
    IF wrapInAssetWrapper
    THEN IF isArray
         THEN PyList([i \in 1..Len(obj.items) |->
                         IF ~isAssetWrapperOrSwitch(obj.items[i])
                         THEN AssetWrapper(obj.items[i]) ELSE obj.items[i]])
         ELSE IF isAssetWrapperOrSwitch(obj) THEN AssetWrapper(obj) ELSE obj
    ELSE obj

\* the statements of the body of a generated mutator run on the __dict__ of self with
\* the argument value: self.attr = value; self._withSlot(...); if self.attr is None:
\* self.attr = []; self.attr.append(value)
RECURSIVE Executed(_, _, _)
Executed(dict, body, value) ==
    IF body = <<>> THEN dict
    ELSE Executed(
             CASE Head(body).stmt = "assign" -> DictSet(dict, Head(body).attr, value)
               [] Head(body).stmt = "_withSlot" ->
                      DictSet(dict, Head(body).name,
                              SlotValue(value, Head(body).wrapInAssetWrapper,
                                        Head(body).isArray))
               [] Head(body).stmt = "init_if_none" ->
                      IF DictGet(dict, Head(body).attr) = None
                      THEN DictSet(dict, Head(body).attr, PyList(<<>>)) ELSE dict
               [] Head(body).stmt = "append" ->
                      DictSet(dict, Head(body).attr,
                              PyList(Append(DictGet(dict, Head(body).attr).items, value)))
               [] OTHER -> dict,
             Tail(body), value)

\* obj.<method>(value)
Invoke(content, obj, method, value) ==
    IF IsRaise(obj) \/ IsRaise(value) THEN (IF IsRaise(obj) THEN obj ELSE value)
    ELSE LET methods == ClassOf(content, obj.of).methods
             at == {i \in 1..Len(methods) : methods[i].name = method}
         IN IF at = {} THEN Raised("AttributeError")
            ELSE Instance(obj.of,
                          Executed(obj.dict, methods[CHOOSE i \in at : TRUE].body, value))

\* isinstance(value, self._jsonable) or value is None or hasattr(value, 'to_dict')
Jsonable(value) == value.cls \in {"int", "bool", "list", "str", "dict", "NoneType"}

\* the key an attribute is written under
SerializedKey(class, attr) ==
    IF DictHas(class.prop_map, attr) THEN DictGet(class.prop_map, attr)
    ELSE IF attr # <<>> /\ Head(attr) = "_" THEN StrReplace(attr, "_", <<>>)
    ELSE attr

\* Serializable._serialize under serialize(): of the attributes of the object, the ones
\* with a value of _jsonable or None are kept (the methods, the tuple _jsonable and
\* the objects of other classes are not); self._propMap is read for the first one
\* kept, and only a class body that assigns _propMap defines it
_serialize(content, obj) ==
    IF IsRaise(obj) THEN obj
    ELSE LET kept == SelectSeq(obj.dict, LAMBDA item : Jsonable(item.value))
             class == ClassOf(content, obj.of)
         IN IF kept = <<>> THEN JDict({})
            ELSE IF class.prop_map = <<>> THEN Raised("AttributeError")
            ELSE JDict({Item(SerializedKey(class, kept[i].key), kept[i].value) :
                          i \in 1..Len(kept)})

\* the orders the test can call the three mutators in
Mutators == {s_withValue, s_withExp, s_withMetadata}
Orders == {o \in [1..3 -> Mutators] : {o[i] : i \in 1..3} = Mutators}

\* the argument the test gives a mutator
ArgumentOf(content, method) ==
    IF method = s_withValue THEN JStr("next")
    ELSE IF method = s_withExp THEN JStr("test")
    ELSE New(content, s_Metadata,
             <<JDict({Item("test", JStr("test"))}), JBool(TRUE), JStr("test")>>, <<>>)

\* the body of test_generate_action after the import
Tested(content, order) ==
    _serialize(content,
        Invoke(content,
            Invoke(content,
                Invoke(content,
                       New(content, s_ActionAsset, <<>>,
                           <<Item(s_id, JStr("test-asset"))>>),
                       order[1], ArgumentOf(content, order[1])),
                order[2], ArgumentOf(content, order[2])),
            order[3], ArgumentOf(content, order[3])))

\* what became of the use of the module: r is what the body of the test gave
Used(missing, is_test, r) ==
    scenario' = IF missing # {}
                THEN [pc |-> "failed", error |-> "ImportError", result |-> <<>>]
                ELSE IF ~is_test THEN [pc |-> "imported", error |-> "", result |-> <<>>]
                ELSE IF IsRaise(r) THEN [pc |-> "failed", error |-> r.exc, result |-> <<>>]
                ELSE [pc |-> "serialized", error |-> "", result |-> <<r>>]

\* the written module
Written == (CHOOSE f \in files : f.name = FileName(input.root.name)).content

\* a program imports the module the call wrote; for the ActionAsset type it goes on as
\* test_generate_action does, with the mutators in some order
UseModule ==
    /\ pc = "done"
    /\ scenario.pc = "start"
    /\ \E order \in Orders :
           Used(MissingNames(Written), input.root = ActionAssetIR,
                IF input.root = ActionAssetIR /\ MissingNames(Written) = {}
                THEN Tested(Written, order) ELSE None)
    /\ UNCHANGED <<genVars, guardVars, desVars, batchVars, twoVars, heap, calls>>

ScenarioRoots == {ActionAssetIR} \cup CuratedRoots
ScenarioCall ==
    \E root \in ScenarioRoots, type \in Families :
        CallOf(root, type) /\ UNCHANGED restVars
ScenarioNext ==
    \/ ScenarioCall
    \/ GenerateMainClass
    \/ GenerateNestedClass
    \/ WriteFile
    \/ UseModule
SpecScenario == Init /\ [][ScenarioNext]_vars

\* the classes of a module, in the order of the file
ClassesOf(content) == SelectSeq(content, LAMBDA st : st.k = "ClassDef")
\* the mapping the test expects
ExpectedMapping ==
    JDict({Item(s_id, JStr("test-asset")), Item(s_type, JStr("action")),
           Item(s_value, JStr("next")), Item(s_exp, JStr("test")),
           Item(s_metaData,
                JDict({Item(s_beacon, JDict({Item("test", JStr("test"))})),
                       Item(s_skipValidation, JBool(TRUE)),
                       Item(s_role, JStr("test"))}))})
\* the call generated the ActionAsset type as an asset
OfActionAsset == input.root = ActionAssetIR /\ input.type = s_asset

\* C17: generating from the ActionAsset type emits exactly two classes, Metadata first
\* and ActionAsset second, ActionAsset with withExp, withValue and withMetadata; an
\* instance built with the id test-asset and given value, exp and a Metadata through
\* the mutators, in any order, serializes to the mapping with id, type = action,
\* value, exp and metaData (beacon, skipValidation, role).
C17_ActionAssetScenario ==
    OfActionAsset =>
        /\ pc \notin {"failed"}
        /\ pc = "done" =>
               /\ Len(ClassesOf(Written)) = 2
               /\ ClassesOf(Written)[1].name = s_Metadata
               /\ ClassesOf(Written)[2].name = s_ActionAsset
               /\ Mutators \subseteq
                      {ClassesOf(Written)[2].methods[i].name :
                          i \in 1..Len(ClassesOf(Written)[2].methods)}
        /\ scenario.pc # "start" =>
               /\ scenario.pc = "serialized"
               /\ scenario.result = <<ExpectedMapping>>

\* the ActionAsset module was written and a program went on to use it
C17_Witness ==
    /\ OfActionAsset
    /\ pc = "done"
    /\ scenario.pc # "start"

\* the part of the scenario that is the generator's: the two classes and the mutators
ActionAssetEmitted ==
    (OfActionAsset /\ pc = "done") =>
        /\ [i \in 1..2 |-> ClassesOf(Written)[i].name] = <<s_Metadata, s_ActionAsset>>
        /\ Len(ClassesOf(Written)) = 2
        /\ Mutators = {ClassesOf(Written)[2].methods[i].name :
                          i \in 1..Len(ClassesOf(Written)[2].methods)}
\* the use of a generated module ends at its import
UseEndsAtImport == scenario.pc # "start" => scenario.error = "ImportError"

(***************************************************************************)
(* Assets of the DSL (view.py): a program builds assets, gives them ids    *)
(* and puts them into the slots of other assets.                           *)
(***************************************************************************)
\* how many assets a program builds, and how many calls it makes on them, at most
MaxAssets == 2
MaxCalls == 4

s_text == <<"t","e","x","t">>
s_collection == <<"c","o","l","l","e","c","t","i","o","n">>
s_content == <<"c","o","n","t","e","n","t">>
s_items == <<"i","t","e","m","s">>
s_root == <<"r","o","o","t">>
s_tags == <<"t","a","g","s">>
n_p1 == <<"p","1">>

\* a reference to the asset built as the n-th one
RefTo(n) == [cls |-> "ref", to |-> n]
\* Asset.__init__: the __dict__ of the new asset
AssetInit(id, type) == <<Item(s_id, id), Item(s_type, JStr(type))>>

\* the constructor of a generated class with the optional property tags:
\* super().__init__(id, type); self.tags = tags, None when it is not passed
GeneratedInit(id, type) == AssetInit(id, type) \o <<Item(s_tags, None)>>

\* the classes of assets of the programs (the subclasses of test_auto_id.py) and the
\* ids they are given
AssetTypes == {s_text, s_collection}
GivenIds == {None, JStr(n_p1)}
AssetRefs == {RefTo(n) : n \in 1..Len(heap)}
\* what a program puts into a slot: an asset, a wrapped asset, a switch; for an array
\* slot a list of such
SingleValues == AssetRefs \cup {AssetWrapper(RefTo(1)), Switch}
ListValues ==
    {PyList(<<>>)} \cup {PyList(<<v>>) : v \in SingleValues}
    \cup {PyList(<<Switch, v>>) : v \in AssetRefs}
    \cup {PyList(<<pair[1], pair[2]>>) :
             pair \in {q \in AssetRefs \X AssetRefs : q[1] # q[2]}}

ViewInit ==
    /\ GenIdle /\ GuardsIdle /\ DesIdle /\ BatchIdle /\ OthersIdle
    /\ dir_exists = FALSE /\ files = {}

\* Text(id), Collection(id): super().__init__(id, type)
NewAsset ==
    /\ Len(heap) < MaxAssets
    /\ Len(calls) < MaxCalls
    /\ \E id \in GivenIds, type \in AssetTypes :
           /\ heap' = Append(heap, GeneratedInit(id, type))
           /\ calls' = Append(calls, [op |-> "__init__", self |-> Len(heap) + 1,
                                      explicit |-> id # None])
    /\ UNCHANGED <<genVars, guardVars, desVars, batchVars, twoVars, scenario>>

\* asset.withID(id)
WithID ==
    /\ Len(calls) < MaxCalls
    /\ \E self \in 1..Len(heap), id \in GivenIds \ {None} :
           /\ heap' = [heap EXCEPT ![self] = DictSet(@, s_id, id)]
           /\ calls' = Append(calls, [op |-> "withID", self |-> self])
    /\ UNCHANGED <<genVars, guardVars, desVars, batchVars, twoVars, scenario>>

\* self._withSlot(name, obj, wrapInAssetWrapper, isArray): self[name] = val
WithSlotOf(self, name, obj, wrapInAssetWrapper, isArray) ==
    /\ heap' = [heap EXCEPT ![self] =
                    DictSet(@, name, SlotValue(obj, wrapInAssetWrapper, isArray))]
    /\ calls' = Append(calls, [op |-> "_withSlot", self |-> self, name |-> name,
                               obj |-> obj, wrapInAssetWrapper |-> wrapInAssetWrapper,
                               isArray |-> isArray])
    /\ UNCHANGED <<genVars, guardVars, desVars, batchVars, twoVars, scenario>>

\* parent.withContent(asset), parent.withItems(assets) and their like in generated
\* classes
WithSlot ==
    /\ heap # <<>>
    /\ Len(calls) < MaxCalls
    /\ \E self \in 1..Len(heap), wrapInAssetWrapper \in BOOLEAN :
           \/ \E obj \in SingleValues :
                  WithSlotOf(self, s_content, obj, wrapInAssetWrapper, FALSE)
           \/ \E obj \in ListValues :
                  WithSlotOf(self, s_items, obj, wrapInAssetWrapper, TRUE)

\* the plain array property of the generated classes of the programs: tags, a list of
\* strings, not required
TagsInfo ==
    [clean_name |-> s_tags, original_name |-> s_tags, node |-> ArrayType(StringNode),
     required |-> FALSE,
     type |-> _make_optional_type(Subscript(Common("List"), Common("string")))]
\* the two mutators the generator gives the property: withTags and addTags
TagsMethods ==
    _generate_array_with_methods(MethodName(TagsInfo), TagsInfo,
                                 [classes |-> <<>>, ctg |-> <<>>, tokens |-> <<>>,
                                  err |-> ""]).methods
\* what a program passes the mutators
TagValues == {JStr("a"), JStr("b")}
TagLists == {PyList(<<>>), PyList(<<JStr("a")>>), PyList(<<JStr("a"), JStr("b")>>)}

\* asset.withTags(values), asset.addTags(value): the body of the generated method runs
\* on the asset
CallMutator(self, method, value) ==
    /\ heap' = [heap EXCEPT ![self] = Executed(@, method.body, value)]
    /\ calls' = Append(calls, [op |-> "mutator", method |-> method.name, self |-> self,
                               obj |-> value])
    /\ UNCHANGED <<genVars, guardVars, desVars, batchVars, twoVars, scenario>>
WithTags ==
    /\ Len(calls) < MaxCalls
    /\ \E self \in 1..Len(heap), values \in TagLists :
           CallMutator(self, TagsMethods[1], values)
AddTags ==
    /\ Len(calls) < MaxCalls
    /\ \E self \in 1..Len(heap), value \in TagValues :
           CallMutator(self, TagsMethods[2], value)

ViewNext == NewAsset \/ WithID \/ WithSlot \/ WithTags \/ AddTags
SpecView == ViewInit /\ [][ViewNext]_vars

\* asset.id
IdOf(n) == DictGet(heap[n], s_id)
TypeNameOf(n) == DictGet(heap[n], s_type).v

\* the index of the asset in the argument of the call, 0 when it is not in it: the
\* asset itself for a single slot, an element of the list for an array slot
PlaceIn(call, n) ==
    IF call.op # "_withSlot" THEN 0
    ELSE IF call.isArray
    THEN (IF \E i \in 1..Len(call.obj.items) : call.obj.items[i] = RefTo(n)
          THEN CHOOSE i \in 1..Len(call.obj.items) : call.obj.items[i] = RefTo(n)
          ELSE 0)
    ELSE IF call.obj = RefTo(n) THEN 1 ELSE 0
\* the calls that registered the asset as a child
RegistrationsOf(n) == {k \in 1..Len(calls) : PlaceIn(calls[k], n) > 0}
\* the most recent of them
LastRegistration(n) ==
    calls[CHOOSE k \in RegistrationsOf(n) : \A j \in RegistrationsOf(n) : j <= k]
\* the asset was given an id: at its construction or by withID
HasExplicitId(n) ==
    \E k \in 1..Len(calls) :
        /\ calls[k].self = n
        /\ \/ calls[k].op = "withID"
           \/ calls[k].op = "__init__" /\ calls[k].explicit
\* the decimal digits of an index of a list of the programs
IndexText(i) == <<SubSeq(<<"0", "1", "2", "3">>, i + 1, i + 1)[1]>>
\* the id the slot context gives: parentId-slotName-childType, or
\* parentId-slotName-index-childType for the element of an array slot; the id of a
\* parent without explicit id is derived likewise, root without a parent (None when
\* the chain of parents does not end within fuel steps)
RECURSIVE DerivedId(_, _)
DerivedId(n, fuel) ==
    IF HasExplicitId(n) THEN IdOf(n)
    ELSE IF RegistrationsOf(n) = {} THEN JStr(s_root)
    ELSE IF fuel = 0 THEN None
    ELSE LET r == LastRegistration(n)
             parentId == DerivedId(r.self, fuel - 1)
         IN IF parentId = None THEN None
            ELSE JStr(parentId.v \o <<"-">> \o r.name
                      \o (IF r.isArray THEN <<"-">> \o IndexText(PlaceIn(r, n) - 1)
                          ELSE <<>>)
                      \o <<"-">> \o TypeNameOf(n))

\* C19: an asset built without an explicit id has, after a parent registered it in a
\* slot, the id parentId-slotName-childType (parentId-slotName-index-childType as the
\* element at that index of an array slot), after any sequence of registrations the
\* one of its most recent parent and slot; an asset with no id and no parent has the
\* id root.
C19_SlotIdDerived ==
    \A n \in 1..Len(heap) :
        (~HasExplicitId(n) /\ DerivedId(n, MaxAssets) # None) =>
            IdOf(n) = DerivedId(n, MaxAssets)

\* an asset built without id was put into the single slot of a parent with an explicit
\* id and then, as the element at index 1, into an array slot of such a parent
C19_Witness ==
    \E n \in 1..Len(heap) :
        /\ ~HasExplicitId(n)
        /\ \E k \in RegistrationsOf(n) : ~calls[k].isArray
        /\ LastRegistration(n).isArray
        /\ PlaceIn(LastRegistration(n), n) = 2
        /\ HasExplicitId(LastRegistration(n).self)
        /\ DerivedId(n, MaxAssets) =
               JStr(n_p1 \o <<"-">> \o s_items \o <<"-", "1", "-">> \o TypeNameOf(n))

\* what the code does instead: the id of an asset is the one it was given last, None
\* when it was given none
IdIsTheGivenOne ==
    \A n \in 1..Len(heap) : ~HasExplicitId(n) => IdOf(n) = None

(***************************************************************************)
(* Claims about the order and the names of the emitted classes             *)
(***************************************************************************)
\* the names written unquoted in a type annotation
RECURSIVE UnquotedIn(_)
RECURSIVE UnquotedInEach(_)
UnquotedInEach(asts) ==
    IF asts = <<>> THEN {} ELSE UnquotedIn(Head(asts)) \cup UnquotedInEach(Tail(asts))
UnquotedIn(a) ==
    CASE a.k = "Name" -> IF a.quoted THEN {} ELSE {a.id}
      [] a.k = "Subscript" -> UnquotedIn(a.value) \cup UnquotedIn(a.slice)
      [] a.k = "Tuple" -> UnquotedInEach(a.elts)
      [] OTHER -> {}
\* the names written unquoted in the annotations of a class of a written file: of its
\* fields, of the parameters of its constructor and of its mutators
UnquotedInClass(c) ==
    UNION {UnquotedIn(c.fields[i].annotation) : i \in 1..Len(c.fields)}
    \cup UNION {UNION {UnquotedInEach(c.init[i].signature[j].annotation) :
                          j \in 1..Len(c.init[i].signature)} : i \in 1..Len(c.init)}
    \cup UNION {UnquotedIn(c.methods[i].annotation) : i \in 1..Len(c.methods)}
\* the positions in the file of the classes with the name
DefinedAt(content, name) ==
    {i \in 1..Len(content) : content[i].k = "ClassDef" /\ content[i].name = name}
\* the classes of the file that the class at position i names unquoted
UsedUnquoted(content, i) ==
    {name \in UnquotedInClass(content[i]) : DefinedAt(content, name) # {}}

\* C21: in every written module, a generated class whose name is written unquoted in
\* an annotation of a class is defined earlier in the file than that class.
C21_NoForwardReference ==
    \A f \in files :
        \A i \in 1..Len(f.content) :
            f.content[i].k = "ClassDef" =>
                \A name \in UsedUnquoted(f.content, i) :
                    \E j \in DefinedAt(f.content, name) : j < i

\* a module was written in which a merged class names another merged class unquoted
C21_Witness ==
    \E f \in files :
        \E i \in 1..Len(f.content) :
            /\ f.content[i].k = "ClassDef"
            /\ f.content[i].bases = <<s_Slotable>>
            /\ \E name \in UsedUnquoted(f.content, i) :
                   \E j \in DefinedAt(f.content, name) :
                       f.content[j].bases = <<s_Slotable>>

\* the names written quoted in a type annotation: the references to the classes of
\* object-shaped nodes
RECURSIVE QuotedIn(_)
RECURSIVE QuotedInEach(_)
QuotedInEach(asts) ==
    IF asts = <<>> THEN {} ELSE QuotedIn(Head(asts)) \cup QuotedInEach(Tail(asts))
QuotedIn(a) ==
    CASE a.k = "Name" -> IF a.quoted THEN {a.id} ELSE {}
      [] a.k = "Subscript" -> QuotedIn(a.value) \cup QuotedIn(a.slice)
      [] a.k = "Tuple" -> QuotedInEach(a.elts)
      [] OTHER -> {}
\* the class names the fields of a class of a written file refer to
ReferencedByFields(c) ==
    UNION {QuotedIn(c.fields[i].annotation) : i \in 1..Len(c.fields)}

\* C22: in every written module, the class name an annotation of an emitted class
\* gives an object-shaped node is the name of a class of that module: the name under
\* which discovery scheduled the node, whatever the property name and the title.
C22_ReferenceNamesConsistent ==
    \A f \in files :
        \A i \in 1..Len(f.content) :
            f.content[i].k = "ClassDef" =>
                \A name \in ReferencedByFields(f.content[i]) :
                    DefinedAt(f.content, name) # {}

\* a module was written in which a field refers to the class of a nested object and
\* the module defines a class of that name
C22_Witness ==
    \E f \in files :
        \E i \in 1..Len(f.content) :
            /\ f.content[i].k = "ClassDef"
            /\ \E name \in ReferencedByFields(f.content[i]) :
                   \E j \in DefinedAt(f.content, name) :
                       j # i /\ f.content[j].bases = <<s_Slotable>>

(***************************************************************************)
(* Claims about intersections                                              *)
(***************************************************************************)
\* the Cartesian product of the members of the unions, the first union varying slowest
RECURSIVE ProductOf(_)
ProductOf(unions) ==
    IF unions = <<>> THEN << <<>> >>
    ELSE LET members == OrTypes(Head(unions))
             rest == ProductOf(Tail(unions))
         IN [i \in 1..(Len(members) * Len(rest)) |->
                <<members[((i - 1) \div Len(rest)) + 1]>>
                    \o rest[((i - 1) % Len(rest)) + 1]]

\* the constituents of an intersection, nested intersections spliced in
ConstituentsOf(node) == _flatten_and_types(node.and_types)

\* an intersection that has a union among its constituents
IntersectionOverUnions(node) ==
    /\ is_and_type(node)
    /\ \E i \in 1..Len(ConstituentsOf(node)) : is_or_type(ConstituentsOf(node)[i])

\* one list of constituents per element of the product: one member of every union,
\* then the constituents that are no unions
CombinationsOf(node) ==
    LET product == ProductOf(SelectSeq(ConstituentsOf(node), is_or_type))
        non_unions == SelectSeq(ConstituentsOf(node), LAMBDA t : ~is_or_type(t))
    IN [k \in 1..Len(product) |-> product[k] \o non_unions]

\* the emitted top-level class and the annotation of its field for a property
TopClass == module_body[Len(module_body)]
AnnotationOf(class, key) ==
    LET i == CHOOSE i \in 1..Len(class.fields) :
                 class.fields[i].target = clean_property_name(key)
    IN class.fields[i].annotation
\* the annotation inside Optional[...]
Unwrapped(annotation) ==
    IF annotation.k = "Subscript" /\ annotation.value = Common("Optional")
    THEN annotation.slice ELSE annotation
\* the entries of a union annotation; an annotation that is no union is its one entry
EntriesOf(annotation) ==
    IF annotation.k = "Subscript" /\ annotation.value = Common("Union")
    THEN annotation.slice.elts ELSE <<annotation>>

\* the module defines a class of that name whose fields are those of the object type
\* that merges the constituents
HoldsPropertiesOf(name, object_types) ==
    \E c \in 1..Len(module_body) :
        /\ module_body[c].k = "ClassDef"
        /\ module_body[c].name = name
        /\ module_body[c].fields =
               _generate_nested_class(
                   name, ObjectType(MergedProperties(<<>>, object_types), None, <<>>, <<>>),
                   Self).class.fields

\* the properties of the top-level type that are intersections over unions
UnionIntersections ==
    {i \in 1..Len(Properties(input.root)) :
        IntersectionOverUnions(Properties(input.root)[i].value.node)}

\* C23: after a generation the annotation of an intersection over unions is a union
\* with one entry per element of the Cartesian product of the union members; the entry
\* of a combination of object types names a class that holds that combination's merged
\* properties, and no two combinations share a class.
C23_OneClassPerCombination ==
    pc = "done" =>
        \A i \in UnionIntersections :
            LET prop == Properties(input.root)[i]
                combinations == CombinationsOf(prop.value.node)
                entries == EntriesOf(Unwrapped(AnnotationOf(TopClass, prop.key)))
            IN /\ Len(entries) = Len(combinations)
               /\ \A k \in 1..Len(combinations) :
                      AllObjectTypes(combinations[k]) =>
                          /\ entries[k].k = "Name"
                          /\ HoldsPropertiesOf(entries[k].id, combinations[k])
                          /\ \A j \in 1..Len(combinations) :
                                 (j # k /\ entries[j].k = "Name")
                                     => entries[j].id # entries[k].id

\* a generation ended for an intersection of two unions of object types: the annotation
\* has an entry per pair and the first names a class with the merged properties
C23_Witness ==
    /\ pc = "done"
    /\ \E i \in UnionIntersections :
           LET prop == Properties(input.root)[i]
               combinations == CombinationsOf(prop.value.node)
               entries == EntriesOf(Unwrapped(AnnotationOf(TopClass, prop.key)))
           IN /\ Len(combinations) = 4
              /\ \A k \in 1..4 : AllObjectTypes(combinations[k])
              /\ Len(entries) = 4
              /\ entries[1].k = "Name"
              /\ HoldsPropertiesOf(entries[1].id, combinations[1])

\* what the code keeps of the claim: the union has one entry per element of the product
EntryPerCombination ==
    pc = "done" =>
        \A i \in UnionIntersections :
            LET prop == Properties(input.root)[i]
            IN Len(EntriesOf(Unwrapped(AnnotationOf(TopClass, prop.key))))
                   = Len(CombinationsOf(prop.value.node))

\* a constituent that is no object type and holds none: no union or array either
HoldsNoObject(c) == ~ObjectShaped(c) /\ ~is_or_type(c) /\ ~is_array_type(c)

\* the properties of the top-level type that are intersections without any
\* object-shaped constituent
PlainIntersections ==
    {i \in 1..Len(Properties(input.root)) :
        LET node == Properties(input.root)[i].value.node
        IN /\ is_and_type(node)
           /\ \A k \in 1..Len(Constituents(node.and_types)) :
                  HoldsNoObject(Constituents(node.and_types)[k])}

\* the names of the classes the module defines
ClassNamesOf(body) == {body[i].name : i \in {j \in 1..Len(body) : body[j].k = "ClassDef"}}

\* what the constituent maps to on its own
MappedAlone(c, prop_name) == _convert_xlr_to_ast(c, prop_name, Self).ast

\* C25: an intersection none of whose constituents is object-shaped, the empty
\* intersection included, never makes the generation fail and never schedules a class:
\* the list of classes stays the top-level name alone when the type has no other
\* property, and the annotation is the one mapped constituent or a Union and names no
\* class of the module.
C25_PlainIntersectionFallsBack ==
    (pc # "idle" /\ ~RootRejected(input.root)) =>
        \A i \in PlainIntersections :
            LET prop == Properties(input.root)[i]
                constituents == Constituents(prop.value.node.and_types)
            IN /\ pc # "failed"
               /\ Len(Properties(input.root)) = 1 =>
                      (classes = <<input.root.name>> /\ classes_to_generate = <<>>)
               /\ pc = "done" =>
                      LET annotation == Unwrapped(AnnotationOf(TopClass, prop.key))
                      IN /\ IF Len(constituents) = 1
                            THEN annotation = MappedAlone(constituents[1], prop.key)
                            ELSE /\ annotation.k = "Subscript"
                                 /\ annotation.value = Common("Union")
                         /\ (UnquotedIn(annotation) \cup QuotedIn(annotation))
                                \cap ClassNamesOf(module_body) = {}

\* a generation ended for an intersection of two primitives: the annotation is the
\* Union of what they map to
C25_Witness ==
    /\ pc = "done"
    /\ \E i \in PlainIntersections :
           LET prop == Properties(input.root)[i]
               constituents == Constituents(prop.value.node.and_types)
           IN /\ Len(constituents) = 2
              /\ Unwrapped(AnnotationOf(TopClass, prop.key))
                     = UnionOf(<<MappedAlone(constituents[1], prop.key),
                                 MappedAlone(constituents[2], prop.key)>>)

\* what the code does: the claim holds of every intersection that has a constituent
PlainIntersectionFallsBackUnlessEmpty ==
    (pc # "idle" /\ ~RootRejected(input.root)) =>
        \A i \in PlainIntersections :
            Properties(input.root)[i].value.node.and_types # <<>> =>
                /\ pc # "failed"
                /\ Len(Properties(input.root)) = 1 =>
                       (classes = <<input.root.name>> /\ classes_to_generate = <<>>)

(***************************************************************************)
(* Claims about generic tokens                                             *)
(***************************************************************************)
\* the generic tokens the top-level type declares
DeclaredTokens ==
    IF is_named_type_with_generics(input.root) THEN TokenDict(input.root.genericTokens)
    ELSE <<>>

\* the properties of the top-level type that refer to a generic token of it that has
\* constraints only, no default
RefsToTokenWithoutDefault ==
    {i \in 1..Len(Properties(input.root)) :
        LET node == Properties(input.root)[i].value.node
        IN /\ is_ref_type(node)
           /\ DictHas(DeclaredTokens, node.ref)
           /\ DictGet(DeclaredTokens, node.ref).default = None}

\* C30: a property that refers to a generic token without a default does not make the
\* generation fail, and in the emitted top-level class it is typed as a reference by
\* the token's name.
C30_TokenWithoutDefaultIsReference ==
    (pc # "idle" /\ ~RootRejected(input.root)) =>
        \A i \in RefsToTokenWithoutDefault :
            /\ pc # "failed"
            /\ pc = "done" =>
                   Unwrapped(AnnotationOf(TopClass, Properties(input.root)[i].key))
                       = Name(Properties(input.root)[i].value.node.ref, FALSE)

\* a generation was run for a type with such a property and came to its end
C30_Witness ==
    /\ pc \in {"done", "failed"}
    /\ ~RootRejected(input.root)
    /\ RefsToTokenWithoutDefault # {}

\* what the code does: the generation of such a type ends with an AttributeError
TokenWithoutDefaultFails ==
    (pc \in {"done", "failed"} /\ ~RootRejected(input.root)
        /\ RefsToTokenWithoutDefault # {})
            => (pc = "failed" /\ error = "AttributeError")

(***************************************************************************)
(* Specification SpecEmission: one call of generate_python_classes that    *)
(* runs on. generate() is straight-line code around one loop over a list   *)
(* that grows by finitely many names, so a call that has started takes its *)
(* next step: the step is not put off for ever.                            *)
(***************************************************************************)
genCtl == <<pc, loop_i>>
\* the call goes on to its next statement
Proceed ==
    /\ pc \in {"generate", "loop"}
    /\ pc' \in {"loop", "done", "failed"}
    /\ loop_i' \in {1, loop_i, loop_i + 1}
    /\ genCtl' # genCtl
SpecEmission == Init /\ [][Next]_vars /\ WF_genCtl(Proceed)

\* the keys of the nested-class map
ScheduledNames == {classes_to_generate[i].key : i \in 1..Len(classes_to_generate)}
\* the bookkeeping of a ClassGenerator once it is constructed
Bookkeeping ==
    built =>
        /\ InSeq(input.root.name, classes)
        /\ ~DictHas(classes_to_generate, input.root.name)
        /\ \A name \in ScheduledNames : InSeq(name, classes)
\* no class is defined twice in the module
NeverEmittedTwice ==
    \A i, j \in 1..Len(module_body) :
        (module_body[i].k = "ClassDef" /\ module_body[j].k = "ClassDef"
            /\ module_body[i].name = module_body[j].name) => i = j
\* the call ended, every scheduled class has its definition and the top-level class is
\* the last definition of the module
EmissionComplete ==
    /\ pc = "done"
    /\ \A name \in ScheduledNames : DefinedAt(module_body, name) # {}
    /\ DefinedAt(module_body, input.root.name) = {Len(module_body)}

\* C29: in every generation call the top-level name is in the class-name list and is
\* never a key of the nested-class map, every key of the map is in the list, no class
\* is emitted twice, and the call leads to its end with every class that was ever
\* scheduled emitted and the top-level class the last definition of the module.
C29_EmissionCompleteness ==
    /\ [](Bookkeeping /\ NeverEmittedTwice)
    /\ (pc = "generate") ~> EmissionComplete

\* a call ended that emitted a class scheduled after discovery, while the top-level
\* class was being built
C29_Witness ==
    /\ EmissionComplete
    /\ \E name \in ScheduledNames :
           /\ ~DictHas(ClassGeneratorInit(input.root).ctg, name)
           /\ DefinedAt(module_body, name) # {}

\* what the code keeps of the claim: the bookkeeping, and the emission of every
\* scheduled class in a call that does not end with an exception
EmissionCompleteUnlessFailed ==
    /\ [](Bookkeeping /\ NeverEmittedTwice)
    /\ (pc = "generate") ~> (EmissionComplete \/ pc = "failed")
\* the exceptions that end a call after its ClassGenerator was constructed
FailsByKeyOrAttributeError ==
    (pc = "failed" /\ built) => error \in {"KeyError", "AttributeError"}

(***************************************************************************)
(* Claims about the members of a tuple and the properties map              *)
(***************************************************************************)
\* the document is a tuple node that came out as a TupleType
TupleDeserialized ==
    /\ Deserialized
    /\ TypeOf(des_doc) = JStr("tuple")
    /\ Has(des_doc, "elementTypes")
    /\ des_out.cls = "TupleType"
\* the elements of the document's elementTypes that are tuple members on the wire: an
\* object with a node under type
MemberPositions ==
    {i \in 1..Len(DictGet(des_doc.items, "elementTypes").items) :
        LET e == DictGet(des_doc.items, "elementTypes").items[i]
        IN e.cls = "dict" /\ Has(e, "type") /\ DictGet(e.items, "type").cls = "dict"}
\* the element with its values loaded, as the hook gets it
LoadedElement(i) ==
    LoadItems(DictGet(des_doc.items, "elementTypes").items[i].items, JDict(<<>>))

\* C24: every element of the elementTypes of a tuple node comes out as the TupleMember
\* with the element's type, name and optional flag.
C24_TupleMembers ==
    TupleDeserialized =>
        \A i \in MemberPositions :
            des_out.elementTypes.items[i] = _deserialize_tuple_member(LoadedElement(i))

\* a tuple node whose element has a type, a name and the optional flag was deserialized
C24_Witness ==
    /\ TupleDeserialized
    /\ \E i \in MemberPositions :
           /\ _is_tuple_member(LoadedElement(i))
           /\ Has(LoadedElement(i), "name") /\ Has(LoadedElement(i), "optional")

\* what the code does: an element with a name and the optional flag comes out as a
\* FunctionTypeParameters, every other element as the dict it was loaded as
TupleElementsAsSniffed ==
    TupleDeserialized =>
        \A i \in MemberPositions :
            des_out.elementTypes.items[i] =
                IF Has(LoadedElement(i), "name") /\ Has(LoadedElement(i), "optional")
                THEN _deserialize_function_type_parameter(LoadedElement(i))
                ELSE LoadedElement(i)

\* the document is an object node that came out as an ObjectType
ObjectDeserialized ==
    /\ Deserialized
    /\ TypeOf(des_doc) = JStr("object")
    /\ ~Has(des_doc, "name")
    /\ Has(des_doc, "properties")
\* the properties map of the document
PropertiesOfDocument == DictGet(des_doc.items, "properties")
\* a map from names to ObjectProperty values with the names of the document's map
MapsEveryProperty(properties) ==
    /\ properties.cls = "dict"
    /\ Len(properties.items) = Len(PropertiesOfDocument.items)
    /\ \A i \in 1..Len(properties.items) :
           /\ properties.items[i].key = PropertiesOfDocument.items[i].key
           /\ properties.items[i].value.cls = "ObjectProperty"

\* C28: the properties map of an object node comes out as a map from every property
\* name to its ObjectProperty, whatever the names are.
C28_PropertiesMapKept ==
    ObjectDeserialized =>
        /\ des_out.cls = "ObjectType"
        /\ MapsEveryProperty(des_out.properties)

\* an object node whose properties are named name and source was deserialized
C28_Witness ==
    /\ ObjectDeserialized
    /\ des_out.cls = "ObjectType"
    /\ Has(PropertiesOfDocument, "name") /\ Has(PropertiesOfDocument, "source")

\* what the code does: the map is kept when its names match none of the shapes the
\* sniffing knows
PropertiesMapKeptUnlessSniffed ==
    (ObjectDeserialized /\ ShapeOf(LoadItems(PropertiesOfDocument.items, JDict(<<>>))) = "by tag")
        => (des_out.cls = "ObjectType" /\ MapsEveryProperty(des_out.properties))

(***************************************************************************)
(* Claims about what the mutators store                                    *)
(***************************************************************************)
\* the call the program made last
LastCall == calls[Len(calls)]
\* what the slot must hold for one value: the value itself when it is a wrapper or a
\* switch, else a wrapper around it
WrappedOnce(value) == IF isAssetWrapperOrSwitch(value) THEN value ELSE AssetWrapper(value)

\* C26: after _withSlot(name, value, wrapInAssetWrapper=True) the receiver holds under
\* name a wrapper around value when value is neither a wrapper nor a switch and value
\* itself when it is one; with isArray=True the list of its elements, each by that rule.
C26_WithSlotWrapsOnce ==
    (calls # <<>> /\ LastCall.op = "_withSlot" /\ LastCall.wrapInAssetWrapper) =>
        DictGet(heap[LastCall.self], LastCall.name) =
            IF LastCall.isArray
            THEN PyList([i \in 1..Len(LastCall.obj.items) |->
                            WrappedOnce(LastCall.obj.items[i])])
            ELSE WrappedOnce(LastCall.obj)

\* a single asset that is no wrapper was put into a slot with wrapInAssetWrapper=True
C26_Witness ==
    /\ calls # <<>>
    /\ LastCall.op = "_withSlot" /\ LastCall.wrapInAssetWrapper /\ ~LastCall.isArray
    /\ LastCall.obj.cls = "ref"
    /\ DictHas(heap[LastCall.self], LastCall.name)

\* what the code does: the rule holds for the elements of an array; a single value is
\* wrapped exactly when it already is a wrapper or a switch
ArrayElementsWrappedOnce ==
    (calls # <<>> /\ LastCall.op = "_withSlot" /\ LastCall.wrapInAssetWrapper
        /\ LastCall.isArray) =>
            DictGet(heap[LastCall.self], LastCall.name) =
                PyList([i \in 1..Len(LastCall.obj.items) |->
                           WrappedOnce(LastCall.obj.items[i])])
SingleValueWrappedWhenWrapper ==
    (calls # <<>> /\ LastCall.op = "_withSlot" /\ LastCall.wrapInAssetWrapper
        /\ ~LastCall.isArray) =>
            DictGet(heap[LastCall.self], LastCall.name) =
                IF isAssetWrapperOrSwitch(LastCall.obj) THEN AssetWrapper(LastCall.obj)
                ELSE LastCall.obj

\* the names of the two mutators of the plain array property
s_withTags == TagsMethods[1].name
s_addTags == TagsMethods[2].name
\* the call is one of the mutator of that name
Calls(call, name) == call.op = "mutator" /\ call.method = name
\* the calls before the k-th one that wrote the property tags of the asset
TagCallsBefore(k, self) ==
    {j \in 1..(k - 1) : calls[j].op = "mutator" /\ calls[j].self = self}
\* the property after the last call
TagsAfterLastCall == DictGet(heap[LastCall.self], s_tags)

\* C27: after withTags(values) the property holds exactly the elements of values, not
\* wrapped; after a following addTags(v) it holds values with v appended; addTags(v) on
\* a property that is None leaves the list of v alone.
C27_PlainArrayMutators ==
    calls # <<>> =>
        /\ Calls(LastCall, s_withTags) => TagsAfterLastCall = LastCall.obj
        /\ (Calls(LastCall, s_addTags) /\ TagCallsBefore(Len(calls), LastCall.self) = {})
               => TagsAfterLastCall = PyList(<<LastCall.obj>>)
        /\ \A k \in 1..(Len(calls) - 1) :
               (/\ Calls(LastCall, s_addTags)
                /\ Calls(calls[k], s_withTags) /\ calls[k].self = LastCall.self
                /\ TagCallsBefore(Len(calls), LastCall.self) \ TagCallsBefore(k + 1, LastCall.self) = {})
                   => TagsAfterLastCall = PyList(Append(calls[k].obj.items, LastCall.obj))

\* withTags was called with a list of two strings
C27_Witness ==
    /\ calls # <<>>
    /\ Calls(LastCall, s_withTags)
    /\ Len(LastCall.obj.items) = 2
    /\ DictHas(heap[LastCall.self], s_tags)

\* what the code does: withTags stores every element in an asset wrapper; addTags
\* appends its argument as it is, to the empty list when the property is None
TagsWrapped ==
    calls # <<>> =>
        /\ Calls(LastCall, s_withTags) =>
               TagsAfterLastCall =
                   PyList([i \in 1..Len(LastCall.obj.items) |->
                              AssetWrapper(LastCall.obj.items[i])])
        /\ (Calls(LastCall, s_addTags) /\ TagCallsBefore(Len(calls), LastCall.self) = {})
               => TagsAfterLastCall = PyList(<<LastCall.obj>>)

====
